---- MODULE Spec2Model ----
(***************************************************************************)
(* A model of the Nutrio bot (src/main.py): the per-user conversation      *)
(* state machine, the cache-aside profile store, the streak engine, the    *)
(* rate limiter and the meal preference filter.                            *)
(*                                                                         *)
(* Text is modelled as a sequence of one-character strings, so that        *)
(* lower(), the substring test and the character allow-lists are computed  *)
(* as the code computes them.                                              *)
(***************************************************************************)
EXTENDS Integers, Sequences, FiniteSets, TLC

----------------------------------------------------------------------------
(* Bounds of the model *)

\* the clock advances under Spec, each by one or two calendar days
MaxDays == 1
\* admission checks per window a user issues under Spec (the conversation)
MaxBurst == 2
\* clock advances under SpecRate
MaxTicks == 2
\* largest streak count given to calculate_streak_points under SpecPoints
MaxStreak == 12
\* longest catalog given to the filter under SpecFilter
MaxCatalog == 3
\* messages with a keyboard a chat keeps on display
MaxKeyboards == 2
\* clock advances under SpecStreak
MaxStreakDays == 3
\* longest text typed under SpecText, the chosen and the long texts apart
MaxText == 2
\* longest streak a durable record holds when a process starts, under SpecRestart
MaxDurableStreak == 5

----------------------------------------------------------------------------
(* Program constants *)

RATE_LIMIT_WINDOW == 60
MAX_REQUESTS_PER_WINDOW == 30
\* seconds in a calendar day: datetime.now().date() changes every 86400 s
SecondsPerDay == 86400

Users == {"u1"}

\* Conversation states (ConversationHandler.END is the absence of a state)
NAME == "NAME"
AGE == "AGE"
GENDER == "GENDER"
\* STATE is a reserved word of TLA+
STATE_ == "STATE"
DIET_TYPE == "DIET_TYPE"
MEDICAL_CONDITION == "MEDICAL_CONDITION"
ACTIVITY_LEVEL == "ACTIVITY_LEVEL"
MEAL_PLAN == "MEAL_PLAN"
WEEK_PLAN == "WEEK_PLAN"
PROFILE == "PROFILE"
GROCERY_MANAGE == "GROCERY_MANAGE"
END == "END"

----------------------------------------------------------------------------
(* Python dictionaries: a function whose DOMAIN is the set of keys *)

EmptyDict == [k \in {} |-> 0]
DictSet(d, k, v) == [x \in (DOMAIN d) \cup {k} |-> IF x = k THEN v ELSE d[x]]
DictDel(d, k) == [x \in (DOMAIN d) \ {k} |-> d[x]]
\* `if d:` -- an empty dictionary is falsy
Truthy(d) == DOMAIN d # {}

\* Optional values: <<>> is None, <<v>> is v
None == << >>
Some(v) == << v >>

----------------------------------------------------------------------------
(* Text *)

UpperLetters == {"A","B","C","D","E","F","G","H","I","J","K","L","M",
                 "N","O","P","Q","R","S","T","U","V","W","X","Y","Z"}
LowerLetters == {"a","b","c","d","e","f","g","h","i","j","k","l","m",
                 "n","o","p","q","r","s","t","u","v","w","x","y","z"}
Digits == {"0","1","2","3","4","5","6","7","8","9"}

LowerChar(c) ==
    CASE c = "A" -> "a" [] c = "B" -> "b" [] c = "C" -> "c" [] c = "D" -> "d"
      [] c = "E" -> "e" [] c = "F" -> "f" [] c = "G" -> "g" [] c = "H" -> "h"
      [] c = "I" -> "i" [] c = "J" -> "j" [] c = "K" -> "k" [] c = "L" -> "l"
      [] c = "M" -> "m" [] c = "N" -> "n" [] c = "O" -> "o" [] c = "P" -> "p"
      [] c = "Q" -> "q" [] c = "R" -> "r" [] c = "S" -> "s" [] c = "T" -> "t"
      [] c = "U" -> "u" [] c = "V" -> "v" [] c = "W" -> "w" [] c = "X" -> "x"
      [] c = "Y" -> "y" [] c = "Z" -> "z" [] OTHER -> c

\* str.lower()
Lower(s) == [i \in 1..Len(s) |-> LowerChar(s[i])]

\* `needle in hay` for two strings
Contains(hay, needle) ==
    \E i \in 0..(Len(hay) - Len(needle)) :
        \A j \in 1..Len(needle) : hay[i + j] = needle[j]

\* `x in list`
InList(x, list) == \E i \in 1..Len(list) : list[i] = x

s_jain == <<"j","a","i","n">>
s_vegan == <<"v","e","g","a","n">>
s_veg == <<"v","e","g">>
s_nonveg == <<"n","o","n","-","v","e","g">>
s_diabetes == <<"d","i","a","b","e","t","e","s">>
s_thyroid == <<"t","h","y","r","o","i","d">>
s_none == <<"n","o","n","e">>
s_other == <<"o","t","h","e","r">>
s_onion == <<"o","n","i","o","n">>
s_garlic == <<"g","a","r","l","i","c">>
s_potato == <<"p","o","t","a","t","o">>
s_milk == <<"m","i","l","k">>
s_ghee == <<"g","h","e","e">>
s_curd == <<"c","u","r","d">>
s_coconut == <<"c","o","c","o","n","u","t">>
s_rice == <<"r","i","c","e">>
s_high == <<"h","i","g","h">>
s_very_high == <<"v","e","r","y"," ","h","i","g","h">>
s_low == <<"l","o","w">>
s_medium == <<"m","e","d","i","u","m">>

----------------------------------------------------------------------------
VARIABLES
    now,              \* datetime.now(), in seconds
    ticks,            \* clock advances so far
    FIREBASE_AVAILABLE, \* FIREBASE_AVAILABLE and db
    fb_docs,          \* the durable store: collection 'users'
    conv,             \* ConversationHandler's state of each user
    user_data_store,  \* profile cache / in-progress drafts
    user_streaks,     \* streak cache
    user_rate_limits, \* rate windows
    keyboards,        \* the inline keyboards on display in each user's chat
    ev,               \* the handler that ran last: for whom, what it returned,
                      \* and what its update_user_streak call returned
    admitted,         \* SpecRate: every timestamp check_rate_limit admitted
    sp_in, sp_out,    \* calculate_streak_points: argument and result
    f_meals, f_diet, f_medical, f_out, f_out2, \* filter_meals_by_preferences
    files,            \* the JSON files of the working directory, by file name
    l_state, l_out,   \* load_meal_data_from_json: argument and result
    plan,             \* what the last meal handler presented
    environ,          \* what the process finds when it starts
    process,          \* SpecStartup: the statement the process is at
    grocery_lists,    \* the grocery list of each user
    user_cart_selections, \* the cart of each user
    context_user_data \* context.user_data of each user: the weekly plan session

vars == << now, ticks, FIREBASE_AVAILABLE, fb_docs, conv, user_data_store,
           user_streaks, user_rate_limits, keyboards, ev, admitted,
           sp_in, sp_out, f_meals, f_diet, f_medical, f_out, f_out2,
           files, l_state, l_out, plan, environ, process,
           grocery_lists, user_cart_selections, context_user_data >>

startVars == << environ, process >>

shopVars == << grocery_lists, user_cart_selections >>
sessionVars == << shopVars, context_user_data >>

\* today = datetime.now().date()
Today(t) == t \div SecondsPerDay
today == Today(now)

----------------------------------------------------------------------------
(* Streak engine *)

RECURSIVE Pow(_, _)
Pow(b, e) == IF e = 0 THEN 1 ELSE b * Pow(b, e - 1)

\* random.randint(a, b): any value of a..b
randint(a, b) == a..b

\* faulty variants of calculate_streak_points: one award range for every
\* streak, and a multiplier one day late
points_without_tiers(streak_count) ==
    IF streak_count <= 0 THEN {0} ELSE randint(8, 15)

points_multiplier_late(streak_count) ==
    IF streak_count <= 0 THEN {0}
    ELSE IF streak_count = 1 THEN randint(2, 5)
    ELSE IF streak_count = 2 THEN randint(4, 8)
    ELSE IF streak_count = 3 THEN randint(8, 15)
    ELSE LET days_over_3 == streak_count - 4
         IN  { (base_points * Pow(3, days_over_3)) \div Pow(2, days_over_3) :
                   base_points \in randint(8, 15) }

\* calculate_streak_points: the set of values one call may return.
\* int(base_points * 1.5 ** k) is floor(base_points * 3^k / 2^k): the float
\* product is exact for the k of this model.
calculate_streak_points(streak_count) ==
    IF streak_count <= 0 THEN {0}
    ELSE IF streak_count = 1 THEN randint(2, 5)
    ELSE IF streak_count = 2 THEN randint(4, 8)
    ELSE IF streak_count = 3 THEN randint(8, 15)
    ELSE LET days_over_3 == streak_count - 3
         IN  { (base_points * Pow(3, days_over_3)) \div Pow(2, days_over_3) :
                   base_points \in randint(8, 15) }

\* the default of user_streaks.get(user_id, {...})
default_streak ==
    [streak_count |-> 0, last_completed_date |-> None, streak_points_total |-> 0]

\* faulty variant of StreakUnchanged: only a date after today is left alone
StreakUnchanged_future_only(streak_data, td) ==
    LET last_completed == streak_data.last_completed_date
    IN  IF last_completed = None THEN FALSE
        ELSE td - last_completed[1] < 0

\* update_user_streak returns streak_data untouched: completed today already,
\* or the stored date is not before today
StreakUnchanged(streak_data, td) ==
    LET last_completed == streak_data.last_completed_date
    IN  IF last_completed = None THEN FALSE
        ELSE \/ last_completed[1] = td
             \/ td - last_completed[1] < 1

\* faulty variants of NewStreakCount: every completion restarts the streak,
\* and a gap does not break it
NewStreakCount_always_restarts(streak_data, td) == 1

NewStreakCount_ignores_gap(streak_data, td) ==
    IF streak_data.last_completed_date # None
    THEN streak_data.streak_count + 1
    ELSE 1

\* lines 216-229: continue, reset or start the streak
NewStreakCount(streak_data, td) ==
    LET last_completed == streak_data.last_completed_date
    IN  IF last_completed # None
        THEN IF td - last_completed[1] = 1
             THEN streak_data.streak_count + 1
             ELSE 1
        ELSE 1

\* faulty variant of UpdatedStreak: a restarted streak restarts the total too
UpdatedStreak_total_restarts(streak_data, td) ==
    IF StreakUnchanged(streak_data, td)
    THEN { streak_data }
    ELSE LET c == NewStreakCount(streak_data, td)
         IN  { [streak_count |-> c,
                last_completed_date |-> Some(td),
                streak_points_total |->
                    (IF c = 1 THEN 0 ELSE streak_data.streak_points_total) + points_earned] :
                   points_earned \in calculate_streak_points(c) }

\* lines 209-234 on one record: the records the call may leave
UpdatedStreak(streak_data, td) ==
    IF StreakUnchanged(streak_data, td)
    THEN { streak_data }
    ELSE LET c == NewStreakCount(streak_data, td)
         IN  { [streak_count |-> c,
                last_completed_date |-> Some(td),
                streak_points_total |-> streak_data.streak_points_total + points_earned] :
                   points_earned \in calculate_streak_points(c) }

\* doc_ref.update({'streak_data': ...}): the documents it may leave; it raises
\* (and the caller swallows it) on a transient error or when the document
\* does not exist
FirestoreUpdateStreak(docs, u, streak_data) ==
    { docs } \cup
    ( IF u \in DOMAIN docs
      THEN { [docs EXCEPT ![u].streak_data = Some(streak_data)] }
      ELSE {} )

\* faulty variant of update_user_streak: the cache keeps the new record only
\* when the durable store took it
update_user_streak_durable_first(streaks, docs, fb, u, td) ==
    LET streak_data == IF u \in DOMAIN streaks THEN streaks[u] ELSE default_streak
    IN  IF StreakUnchanged(streak_data, td)
        THEN { [ret |-> streak_data, streaks |-> streaks, docs |-> docs] }
        ELSE UNION { { [ret |-> sd,
                        streaks |-> IF fb /\ d = docs THEN streaks
                                    ELSE DictSet(streaks, u, sd),
                        docs |-> d] :
                         d \in (IF fb THEN FirestoreUpdateStreak(docs, u, sd)
                                      ELSE { docs }) } :
                     sd \in UpdatedStreak(streak_data, td) }

\* update_user_streak: [ret, streaks, docs] for every outcome
update_user_streak(streaks, docs, fb, u, td) ==
    LET streak_data == IF u \in DOMAIN streaks THEN streaks[u] ELSE default_streak
    IN  IF StreakUnchanged(streak_data, td)
        THEN { [ret |-> streak_data, streaks |-> streaks, docs |-> docs] }
        ELSE UNION { { [ret |-> sd, streaks |-> DictSet(streaks, u, sd), docs |-> d] :
                         d \in (IF fb THEN FirestoreUpdateStreak(docs, u, sd)
                                      ELSE { docs }) } :
                     sd \in UpdatedStreak(streak_data, td) }

\* get_user_streak: [ret, streaks] for every outcome
get_user_streak(streaks, docs, fb, u) ==
    IF u \in DOMAIN streaks
    THEN { [ret |-> streaks[u], streaks |-> streaks] }
    ELSE LET caching(sd) == [ret |-> sd, streaks |-> DictSet(streaks, u, sd)]
         IN  IF fb
             THEN \* doc_ref.get() raised: the default is cached
                  { caching(default_streak) } \cup
                  ( IF u \in DOMAIN docs
                    THEN { caching(IF docs[u].streak_data # None
                                   THEN docs[u].streak_data[1]
                                   ELSE default_streak) }
                    ELSE {} )
             ELSE { caching(default_streak) }

----------------------------------------------------------------------------
(* Profile store *)

\* faulty variant of save_user_profile: the cache is written only after the
\* durable store accepted the profile
save_caching_on_success(store, docs, fb, u, profile_data) ==
    LET cached == DictSet(store, u, profile_data)
    IN  IF fb
        THEN { [ret |-> TRUE, store |-> cached,
                docs |-> DictSet(docs, u, [profile |-> profile_data, streak_data |-> None])],
               [ret |-> FALSE, store |-> store, docs |-> docs] }
        ELSE { [ret |-> FALSE, store |-> cached, docs |-> docs] }

\* save_user_profile: [ret, store, docs] for every outcome. doc_ref.set()
\* replaces the whole document.
save_user_profile(store, docs, fb, u, profile_data) ==
    LET cached == DictSet(store, u, profile_data)
    IN  IF fb
        THEN { [ret |-> TRUE, store |-> cached,
                docs |-> DictSet(docs, u, [profile |-> profile_data, streak_data |-> None])],
               [ret |-> FALSE, store |-> cached, docs |-> docs] }
        ELSE { [ret |-> FALSE, store |-> cached, docs |-> docs] }

\* faulty variant of get_user_profile: a profile read from the durable store
\* is returned without being cached
get_user_profile_not_caching(store, docs, fb, u) ==
    IF u \in DOMAIN store
    THEN { [ret |-> Some(store[u]), store |-> store, query |-> "none"] }
    ELSE IF fb
         THEN { [ret |-> None, store |-> store, query |-> "failed"] } \cup
              { IF u \in DOMAIN docs /\ Truthy(docs[u].profile)
                THEN [ret |-> Some(docs[u].profile), store |-> store, query |-> "hit"]
                ELSE [ret |-> None, store |-> store, query |-> "miss"] }
         ELSE { [ret |-> None, store |-> store, query |-> "none"] }

\* get_user_profile: [ret, store, query] for every outcome; ret is None or
\* Some(profile); query tells what became of doc_ref.get(): "none" when it was
\* not called, "failed" when it raised, "hit" when the document holds a
\* profile, "miss" otherwise
get_user_profile(store, docs, fb, u) ==
    IF u \in DOMAIN store
    THEN { [ret |-> Some(store[u]), store |-> store, query |-> "none"] }
    ELSE IF fb
         THEN { [ret |-> None, store |-> store, query |-> "failed"] } \cup
              { IF u \in DOMAIN docs /\ Truthy(docs[u].profile)
                THEN [ret |-> Some(docs[u].profile),
                      store |-> DictSet(store, u, docs[u].profile),
                      query |-> "hit"]
                ELSE [ret |-> None, store |-> store, query |-> "miss"] }
         ELSE { [ret |-> None, store |-> store, query |-> "none"] }

----------------------------------------------------------------------------
(* Rate limiter *)

\* lines 407-408: the requests of the trailing window
current_requests(requests, t) ==
    SelectSeq(requests, LAMBDA req : t - req <= RATE_LIMIT_WINDOW)

\* faulty variants of check_rate_limit: one request too many is let in; the
\* window is never reset; the request is logged before the cap is checked
check_rate_limit_one_more(limits, u, t) ==
    LET l0 == IF u \in DOMAIN limits THEN limits
              ELSE DictSet(limits, u, [requests |-> << >>, last_reset |-> t])
        l1 == IF t - l0[u].last_reset > RATE_LIMIT_WINDOW
              THEN [l0 EXCEPT ![u] = [requests |-> << >>, last_reset |-> t]]
              ELSE l0
    IN  IF Len(current_requests(l1[u].requests, t)) > MAX_REQUESTS_PER_WINDOW
        THEN [ret |-> FALSE, limits |-> l1]
        ELSE [ret |-> TRUE,
              limits |-> [l1 EXCEPT ![u].requests = Append(@, t)]]

check_rate_limit_no_reset(limits, u, t) ==
    LET l1 == IF u \in DOMAIN limits THEN limits
              ELSE DictSet(limits, u, [requests |-> << >>, last_reset |-> t])
    IN  IF Len(current_requests(l1[u].requests, t)) >= MAX_REQUESTS_PER_WINDOW
        THEN [ret |-> FALSE, limits |-> l1]
        ELSE [ret |-> TRUE,
              limits |-> [l1 EXCEPT ![u].requests = Append(@, t)]]

\* faulty variant of check_rate_limit: the window is reset only after twice
\* its length
check_rate_limit_late_reset(limits, u, t) ==
    LET l0 == IF u \in DOMAIN limits THEN limits
              ELSE DictSet(limits, u, [requests |-> << >>, last_reset |-> t])
        l1 == IF t - l0[u].last_reset > 2 * RATE_LIMIT_WINDOW
              THEN [l0 EXCEPT ![u] = [requests |-> << >>, last_reset |-> t]]
              ELSE l0
    IN  IF Len(current_requests(l1[u].requests, t)) >= MAX_REQUESTS_PER_WINDOW
        THEN [ret |-> FALSE, limits |-> l1]
        ELSE [ret |-> TRUE,
              limits |-> [l1 EXCEPT ![u].requests = Append(@, t)]]

check_rate_limit_logs_first(limits, u, t) ==
    LET l0 == IF u \in DOMAIN limits THEN limits
              ELSE DictSet(limits, u, [requests |-> << >>, last_reset |-> t])
        l1 == IF t - l0[u].last_reset > RATE_LIMIT_WINDOW
              THEN [l0 EXCEPT ![u] = [requests |-> << >>, last_reset |-> t]]
              ELSE l0
        l2 == [l1 EXCEPT ![u].requests = Append(@, t)]
    IN  [ret |-> Len(current_requests(l1[u].requests, t)) < MAX_REQUESTS_PER_WINDOW,
         limits |-> l2]

\* check_rate_limit: [ret, limits]
check_rate_limit(limits, u, t) ==
    LET l0 == IF u \in DOMAIN limits THEN limits
              ELSE DictSet(limits, u, [requests |-> << >>, last_reset |-> t])
        l1 == IF t - l0[u].last_reset > RATE_LIMIT_WINDOW
              THEN [l0 EXCEPT ![u] = [requests |-> << >>, last_reset |-> t]]
              ELSE l0
    IN  IF Len(current_requests(l1[u].requests, t)) >= MAX_REQUESTS_PER_WINDOW
        THEN [ret |-> FALSE, limits |-> l1]
        ELSE [ret |-> TRUE,
              limits |-> [l1 EXCEPT ![u].requests = Append(@, t)]]

----------------------------------------------------------------------------
(* Preference filter.  A meal is a dictionary with the keys "Food Item",    *)
(* "Ingredients", "approx_calories" and, optionally, "Calorie Level".       *)

\* dict.get(key, default)
Get(d, key, default) == IF key \in DOMAIN d THEN d[key] ELSE default

\* str(list) of a list of strings: "['a', 'b']"
RECURSIVE join_repr(_)
join_repr(list) ==
    IF list = << >> THEN << >>
    ELSE <<"'">> \o Head(list) \o <<"'">>
         \o (IF Len(list) > 1 THEN <<",", " ">> ELSE << >>)
         \o join_repr(Tail(list))
str_list(list) == <<"[">> \o join_repr(list) \o <<"]">>

\* any(item in meal.get("Ingredients", []) for item in items)
any_ingredient(meal, items) ==
    \E item \in items : InList(item, Get(meal, "Ingredients", << >>))

\* lines 422-438: the meal is skipped (`continue`)
meal_skipped(meal, diet_type, medical_condition) ==
    \/ "Food Item" \notin DOMAIN meal
    \/ IF Lower(diet_type) = s_jain
       THEN any_ingredient(meal, {s_onion, s_garlic, s_potato})
       ELSE IF Lower(diet_type) = s_vegan
            THEN any_ingredient(meal, {s_milk, s_ghee, s_curd})
            ELSE FALSE
    \/ IF Lower(medical_condition) = s_diabetes
       THEN Lower(Get(meal, "Calorie Level", << >>)) \in {s_high, s_very_high}
       ELSE IF Lower(medical_condition) = s_thyroid
            THEN Contains(Lower(str_list(Get(meal, "Ingredients", << >>))), s_coconut)
            ELSE FALSE

\* faulty variant of filter_meals_by_preferences: the unsuitable meals are
\* removed from the list while it is being iterated, so the meal after each
\* removed one is never examined
RECURSIVE filter_removing_in_place(_, _, _)
filter_removing_in_place(meals, diet_type, medical_condition) ==
    IF meals = << >> THEN << >>
    ELSE IF meal_skipped(Head(meals), diet_type, medical_condition)
         THEN IF Len(meals) = 1 THEN << >>
              ELSE << meals[2] >>
                   \o filter_removing_in_place(Tail(Tail(meals)), diet_type, medical_condition)
         ELSE << Head(meals) >>
              \o filter_removing_in_place(Tail(meals), diet_type, medical_condition)

filter_meals_by_preferences(meals, diet_type, medical_condition) ==
    SelectSeq(meals, LAMBDA meal : ~meal_skipped(meal, diet_type, medical_condition))

----------------------------------------------------------------------------
(* Catalog loader.  What json.load returns is a tree of values that carry   *)
(* their Python type; a dictionary of the tree has TLA+ strings as keys.    *)

JStr(s) == [type |-> "str", str |-> s]
JInt(n) == [type |-> "int", int |-> n]
JList(l) == [type |-> "list", list |-> l]
JDict(d) == [type |-> "dict", dict |-> d]
JNull == [type |-> "NoneType"]

\* isinstance(v, t)
isinstance(v, t) == v.type = t

\* the characters of the keys the loader names
chars(key) ==
    CASE key = "Food Item" -> <<"F","o","o","d"," ","I","t","e","m">>
      [] key = "Ingredients" -> <<"I","n","g","r","e","d","i","e","n","t","s">>
      [] key = "approx_calories" ->
             <<"a","p","p","r","o","x","_","c","a","l","o","r","i","e","s">>
      [] key = "Items" -> <<"I","t","e","m","s">>
      [] key = "Health Impact" -> <<"H","e","a","l","t","h"," ","I","m","p","a","c","t">>
      [] key = "Calorie Level" -> <<"C","a","l","o","r","i","e"," ","L","e","v","e","l">>
      [] key = "region" -> <<"r","e","g","i","o","n">>

\* the elements of a set of keys, in the order the dictionary holds them
RECURSIVE KeyList(_)
KeyList(keys) ==
    IF keys = {} THEN << >>
    ELSE LET k == CHOOSE x \in keys : TRUE
         IN  << JStr(chars(k)) >> \o KeyList(keys \ {k})

\* `key in v` for a string key: [raised, ret]
key_in(key, v) ==
    CASE v.type = "dict" -> [raised |-> FALSE, ret |-> key \in DOMAIN v.dict]
      [] v.type = "str" -> [raised |-> FALSE, ret |-> Contains(v.str, chars(key))]
      [] v.type = "list" -> [raised |-> FALSE, ret |-> InList(JStr(chars(key)), v.list)]
      \* TypeError: argument of type 'int' is not iterable
      [] OTHER -> [raised |-> TRUE, ret |-> FALSE]

required_fields == << "Food Item", "Ingredients", "approx_calories" >>

\* validate_meal_structure: [raised, ret].  Only a dictionary can be
\* subscripted with a field name.
validate_meal_structure(meal) ==
    IF \E i \in 1..3 : key_in(required_fields[i], meal).raised
    THEN [raised |-> TRUE, ret |-> FALSE]
    ELSE IF \E i \in 1..3 : ~key_in(required_fields[i], meal).ret
    THEN [raised |-> FALSE, ret |-> FALSE]
    ELSE IF meal.type # "dict"
    THEN [raised |-> TRUE, ret |-> FALSE]
    ELSE LET food_item == meal.dict["Food Item"]
             ingredients == meal.dict["Ingredients"]
             approx_calories == meal.dict["approx_calories"]
         IN  [raised |-> FALSE,
              ret |->
                /\ isinstance(food_item, "str") /\ Len(food_item.str) >= 1
                /\ isinstance(ingredients, "list") /\ Len(ingredients.list) >= 1
                /\ isinstance(approx_calories, "int") /\ approx_calories.int > 0]

JMeal(name, ingredients, calories, impact, level) ==
    JDict([k \in {"Food Item", "Ingredients", "approx_calories",
                  "Health Impact", "Calorie Level"} |->
              IF k = "Food Item" THEN JStr(name)
              ELSE IF k = "Ingredients"
                   THEN JList([i \in 1..Len(ingredients) |-> JStr(ingredients[i])])
              ELSE IF k = "approx_calories" THEN JInt(calories)
              ELSE IF k = "Health Impact" THEN JStr(impact)
              ELSE JStr(level)])

\* faulty variant of get_fallback_meal_data: a builtin meal without
\* ingredients
get_fallback_without_ingredients(state) ==
    <<
    JMeal(<<"R","i","c","e"," ","a","n","d"," ","D","a","l">>,
          <<<<"r","i","c","e">>, <<"l","e","n","t","i","l","s">>, <<"s","p","i","c","e","s">>, <<"o","n","i","o","n">>, <<"t","o","m","a","t","o">>>>,
          250,
          <<"B","a","l","a","n","c","e","d"," ","m","e","a","l"," ","w","i",
                 "t","h"," ","p","r","o","t","e","i","n"," ","a","n","d"," ","c",
                 "a","r","b","s">>,
          <<"m","e","d","i","u","m">>),
    JMeal(<<"V","e","g","e","t","a","b","l","e"," ","C","u","r","r","y">>,
          <<<<"v","e","g","e","t","a","b","l","e","s">>, <<"s","p","i","c","e","s">>, <<"o","n","i","o","n">>, <<"t","o","m","a","t","o">>, <<"o","i","l">>>>,
          180,
          <<"H","i","g","h"," ","i","n"," ","f","i","b","e","r"," ","a","n",
                 "d"," ","v","i","t","a","m","i","n","s">>,
          <<"l","o","w">>),
    JMeal(<<"C","h","a","p","a","t","i">>,
          << >>,
          120,
          <<"W","h","o","l","e"," ","g","r","a","i","n"," ","b","r","e","a",
                 "d",","," ","g","o","o","d"," ","s","o","u","r","c","e"," ","o",
                 "f"," ","f","i","b","e","r">>,
          <<"l","o","w">>),
    JMeal(<<"M","i","x","e","d"," ","V","e","g","e","t","a","b","l","e"," ",
                 "S","a","l","a","d">>,
          <<<<"c","u","c","u","m","b","e","r">>, <<"t","o","m","a","t","o">>, <<"o","n","i","o","n">>, <<"l","e","m","o","n">>, <<"s","a","l","t">>>>,
          80,
          <<"L","o","w"," ","c","a","l","o","r","i","e",","," ","h","i","g",
                 "h"," ","i","n"," ","v","i","t","a","m","i","n","s">>,
          <<"l","o","w">>)
    >>

\* get_fallback_meal_data: the four builtin meals
get_fallback_meal_data(state) ==
    <<
    JMeal(<<"R","i","c","e"," ","a","n","d"," ","D","a","l">>,
          <<<<"r","i","c","e">>, <<"l","e","n","t","i","l","s">>, <<"s","p","i","c","e","s">>, <<"o","n","i","o","n">>, <<"t","o","m","a","t","o">>>>,
          250,
          <<"B","a","l","a","n","c","e","d"," ","m","e","a","l"," ","w","i",
                 "t","h"," ","p","r","o","t","e","i","n"," ","a","n","d"," ","c",
                 "a","r","b","s">>,
          <<"m","e","d","i","u","m">>),
    JMeal(<<"V","e","g","e","t","a","b","l","e"," ","C","u","r","r","y">>,
          <<<<"v","e","g","e","t","a","b","l","e","s">>, <<"s","p","i","c","e","s">>, <<"o","n","i","o","n">>, <<"t","o","m","a","t","o">>, <<"o","i","l">>>>,
          180,
          <<"H","i","g","h"," ","i","n"," ","f","i","b","e","r"," ","a","n",
                 "d"," ","v","i","t","a","m","i","n","s">>,
          <<"l","o","w">>),
    JMeal(<<"C","h","a","p","a","t","i">>,
          <<<<"w","h","e","a","t"," ","f","l","o","u","r">>, <<"w","a","t","e","r">>, <<"s","a","l","t">>>>,
          120,
          <<"W","h","o","l","e"," ","g","r","a","i","n"," ","b","r","e","a",
                 "d",","," ","g","o","o","d"," ","s","o","u","r","c","e"," ","o",
                 "f"," ","f","i","b","e","r">>,
          <<"l","o","w">>),
    JMeal(<<"M","i","x","e","d"," ","V","e","g","e","t","a","b","l","e"," ",
                 "S","a","l","a","d">>,
          <<<<"c","u","c","u","m","b","e","r">>, <<"t","o","m","a","t","o">>, <<"o","n","i","o","n">>, <<"l","e","m","o","n">>, <<"s","a","l","t">>>>,
          80,
          <<"L","o","w"," ","c","a","l","o","r","i","e",","," ","h","i","g",
                 "h"," ","i","n"," ","v","i","t","a","m","i","n","s">>,
          <<"l","o","w">>)
    >>

s_maharashtra == <<"m","a","h","a","r","a","s","h","t","r","a">>
s_maharastra_json == <<"m","a","h","a","r","a","s","t","r","a",".","j","s","o","n">>
s_dot_json == <<".","j","s","o","n">>

\* lines 289-292
filename_of(state) ==
    IF Lower(state) = s_maharashtra THEN s_maharastra_json
    ELSE Lower(state) \o s_dot_json

\* meals.extend(v): [raised, items], the elements iterating v yields
extended(v) ==
    CASE v.type = "list" -> [raised |-> FALSE, items |-> v.list]
      [] v.type = "str" ->
             [raised |-> FALSE, items |-> [i \in 1..Len(v.str) |-> JStr(<< v.str[i] >>)]]
      [] v.type = "dict" -> [raised |-> FALSE, items |-> KeyList(DOMAIN v.dict)]
      \* TypeError: 'int' object is not iterable
      [] OTHER -> [raised |-> TRUE, items |-> << >>]

\* lines 304-310: [raised, meals]
RECURSIVE collect_meals(_)
collect_meals(data) ==
    IF data = << >> THEN [raised |-> FALSE, meals |-> << >>]
    ELSE LET item == Head(data)
             found == IF isinstance(item, "dict") /\ "Items" \in DOMAIN item.dict
                      THEN extended(item.dict["Items"])
                      ELSE IF isinstance(item, "dict") /\ "Food Item" \in DOMAIN item.dict
                           THEN [raised |-> FALSE, items |-> << item >>]
                           ELSE [raised |-> FALSE, items |-> << >>]
             rest == collect_meals(Tail(data))
         IN  IF found.raised \/ rest.raised
             THEN [raised |-> TRUE, meals |-> << >>]
             ELSE [raised |-> FALSE, meals |-> found.items \o rest.meals]

\* lines 313-318: [raised, meals]; the warning of line 318 calls meal.get,
\* which only a dictionary has (AttributeError)
RECURSIVE validated(_)
validated(meals) ==
    IF meals = << >> THEN [raised |-> FALSE, meals |-> << >>]
    ELSE LET meal == Head(meals)
             v == validate_meal_structure(meal)
         IN  IF v.raised THEN [raised |-> TRUE, meals |-> << >>]
             ELSE IF ~v.ret /\ meal.type # "dict" THEN [raised |-> TRUE, meals |-> << >>]
             ELSE LET rest == validated(Tail(meals))
                  IN  IF rest.raised THEN rest
                      ELSE [raised |-> FALSE,
                            meals |-> (IF v.ret THEN << meal >> ELSE << >>) \o rest.meals]

\* the try block, lines 288-321: [raised, ret], raised naming the exception
\* ("none" when the block returns)
load_try(fs, state) ==
    LET filename == filename_of(state)
    IN  IF filename \notin DOMAIN fs
        THEN [raised |-> "none", ret |-> get_fallback_meal_data(state)]
        ELSE IF ~fs[filename].parsed
        THEN [raised |-> fs[filename].error, ret |-> << >>]
        ELSE LET data == fs[filename].data
                 meals == IF isinstance(data, "list") THEN collect_meals(data.list)
                          ELSE [raised |-> FALSE, meals |-> << >>]
                 validated_meals == validated(meals.meals)
             IN  IF meals.raised \/ validated_meals.raised
                 THEN [raised |-> "Exception", ret |-> << >>]
                 ELSE [raised |-> "none",
                       ret |-> IF validated_meals.meals # << >>
                               THEN validated_meals.meals
                               ELSE get_fallback_meal_data(state)]

\* faulty variant of load_meal_data_from_json: only the JSON decode error is
\* caught
load_catching_decode_errors(fs, state) ==
    LET r == load_try(fs, state)
    IN  IF r.raised = "JSONDecodeError"
        THEN [raised |-> "none", ret |-> get_fallback_meal_data(state)]
        ELSE r

\* load_meal_data_from_json: [raised, ret]; both except clauses return the
\* builtin meals
load_meal_data_from_json(fs, state) ==
    LET r == load_try(fs, state)
    IN  IF r.raised = "JSONDecodeError"
        THEN [raised |-> "none", ret |-> get_fallback_meal_data(state)]
        ELSE IF r.raised # "none"
        THEN [raised |-> "none", ret |-> get_fallback_meal_data(state)]
        ELSE r

----------------------------------------------------------------------------
(* Free-text validation *)

isdigit(c) == c \in Digits \cup {"²"}
isalnum(c) == c \in UpperLetters \cup LowerLetters \cup Digits \cup {"²"}
isspace(c) == c = " "

\* str.strip()
RECURSIVE lstrip(_)
lstrip(s) == IF s # << >> /\ isspace(Head(s)) THEN lstrip(Tail(s)) ELSE s
RECURSIVE rstrip(_)
rstrip(s) == IF s # << >> /\ isspace(s[Len(s)])
             THEN rstrip(SubSeq(s, 1, Len(s) - 1)) ELSE s
strip(s) == rstrip(lstrip(s))

\* faulty variant of sanitize_name: the underscore is let through
sanitize_name_with_underscore(name) ==
    strip(SelectSeq(name, LAMBDA c : isalnum(c) \/ isspace(c) \/ c \in {".", "-", "'", "_"}))

\* "".join(c for c in name if c.isalnum() or c.isspace() or c in ".-'").strip()
sanitize_name(name) ==
    strip(SelectSeq(name, LAMBDA c : isalnum(c) \/ isspace(c) \/ c \in {".", "-", "'"}))

\* "".join(c for c in text if c.isalnum() or c.isspace() or c in ".,()-").strip()
sanitize_medical(text) ==
    strip(SelectSeq(text, LAMBDA c : isalnum(c) \/ isspace(c)
                                      \/ c \in {".", ",", "(", ")", "-"}))

\* "".join(c for c in age_text if c.isdigit())
clean_age(age_text) == SelectSeq(age_text, isdigit)

DigitValue(c) ==
    CASE c = "0" -> 0 [] c = "1" -> 1 [] c = "2" -> 2 [] c = "3" -> 3 [] c = "4" -> 4
      [] c = "5" -> 5 [] c = "6" -> 6 [] c = "7" -> 7 [] c = "8" -> 8 [] c = "9" -> 9

\* int(s) raises ValueError on a digit character that is not a decimal digit
IntRaises(s) == \E i \in 1..Len(s) : s[i] \notin Digits
RECURSIVE int(_)
int(s) == IF s = << >> THEN 0
          ELSE 10 * int(SubSeq(s, 1, Len(s) - 1)) + DigitValue(s[Len(s)])

\* handle_name: None when the input is rejected, else Some(stored name)
accepted_name(text) ==
    LET name == strip(text)
        sanitized_name == sanitize_name(name)
    IN  IF Len(name) < 2 THEN None
        ELSE IF Len(sanitized_name) < 2 THEN None
        ELSE IF Len(sanitized_name) > 50 THEN None
        ELSE Some(sanitized_name)

\* faulty variant of accepted_age: an age above 120 is stored as 120
accepted_age_clamping(text) ==
    LET age_text == strip(text)
        digits == clean_age(age_text)
    IN  IF age_text = << >> THEN None
        ELSE IF digits = << >> THEN None
        ELSE IF IntRaises(digits) THEN None
        ELSE IF int(digits) < 1 THEN None
        ELSE IF int(digits) > 120 THEN Some(120)
        ELSE Some(int(digits))

\* handle_age: None when the input is rejected, else Some(stored age)
accepted_age(text) ==
    LET age_text == strip(text)
        digits == clean_age(age_text)
    IN  IF age_text = << >> THEN None
        ELSE IF digits = << >> THEN None
        ELSE IF IntRaises(digits) THEN None
        ELSE IF int(digits) < 1 \/ int(digits) > 120 THEN None
        ELSE Some(int(digits))

\* faulty variant of accepted_medical: no upper limit on the length
accepted_medical_unbounded(text) ==
    LET medical_condition == strip(text)
        sanitized_medical == sanitize_medical(medical_condition)
    IN  IF Len(medical_condition) < 3 THEN None
        ELSE IF Len(sanitized_medical) < 3 THEN None
        ELSE Some(sanitized_medical)

\* handle_custom_medical: None when the input is rejected, else Some(stored text)
accepted_medical(text) ==
    LET medical_condition == strip(text)
        sanitized_medical == sanitize_medical(medical_condition)
    IN  IF medical_condition = << >> THEN None
        ELSE IF Len(medical_condition) < 3 THEN None
        ELSE IF Len(medical_condition) > 200 THEN None
        ELSE IF Len(sanitized_medical) < 3 THEN None
        ELSE Some(sanitized_medical)

\* The texts a user types
Repeat(c, n) == [i \in 1..n |-> c]
NameTexts == { <<" ","J","_","o"," ">>, <<"x">>, <<"!","!","a">>, Repeat("a", 51) }
AgeTexts == { <<"t","5">>, <<"0">>, <<"1","2","1">>, <<"a","b">>, <<"²">> }
MedicalTexts == { <<"D","i","a","b","e","t","e","s","!">>, <<"a","b">>,
                  <<"a","!","!">>, Repeat("a", 201) }

\* The choices the keyboards offer (callback data after the prefix)
GenderChoices == { "male" }
StateChoices == { "maharashtra" }
DietChoices == { s_jain }
MedicalChoices == { s_none }
ActivityChoices == { "sedentary" }

----------------------------------------------------------------------------
(* The chat: inline keyboards.  A button can be pressed while a message     *)
(* that carries it is on display; query.edit_message_text replaces the      *)
(* keyboard of the message whose button was pressed, reply_text sends a new *)
(* message.  A keyboard is named after the handler branch that builds it;   *)
(* keyboards[u] holds the keyboards on display, the latest message last;    *)
(* the user presses a button of the latest message that carries a keyboard. *)

Buttons(kb) ==
    CASE kb = "kb_start_profile" -> {"start_profile"}
      [] kb = "kb_menu" -> {"get_meal_plan", "week_plan", "grocery_list",
                            "view_profile", "update_profile"}
      [] kb = "kb_gender" -> {"gender_"}
      [] kb = "kb_state" -> {"state_"}
      [] kb = "kb_diet" -> {"diet_"}
      [] kb = "kb_medical" -> {"medical_"}
      [] kb = "kb_activity" -> {"activity_"}
      [] kb = "kb_completed" -> {"view_profile"}
      [] kb = "kb_start_over" -> {"start_over"}
      [] kb = "kb_meal_plan" -> {"rate_", "grocery_list", "order_zepto",
                                 "get_meal_plan", "go_back"}
      [] kb = "kb_profile" -> {"get_meal_plan", "week_plan", "grocery_list",
                               "streak_help", "update_profile"}
      [] kb = "kb_streak_help" -> {"view_profile", "get_meal_plan"}

NoKeyboard == << >>

\* a callback query with data `button`, from the keyboard of message msg,
\* reaches button_handler
Pressed(u, msg, button) ==
    /\ conv[u] # END
    /\ msg \in DOMAIN keyboards[u]
    /\ msg = Len(keyboards[u])
    /\ button \in Buttons(keyboards[u][msg])

\* query.edit_message_text(..., reply_markup=new) on the pressed message
Edits(u, msg, new) ==
    keyboards' = [keyboards EXCEPT ![u] =
                     SubSeq(@, 1, msg - 1) \o new \o SubSeq(@, msg + 1, Len(@))]

\* update.message.reply_text(..., reply_markup=new): a new message; the chat
\* keeps the MaxKeyboards latest keyboards
Replies(u, new) ==
    keyboards' = [keyboards EXCEPT ![u] =
                     IF new = NoKeyboard THEN @
                     ELSE IF Len(@) < MaxKeyboards THEN @ \o new
                     ELSE Tail(@) \o new]

----------------------------------------------------------------------------
(* Conversation handlers. Each action is one handler run to completion for  *)
(* user u; ev records the handler and what it returned ("raised" when it    *)
(* ended in an exception, which leaves the conversation state as it was).   *)

catalogVars == << files, l_state, l_out, plan >>
\* the arguments and results of the functions called on their own, and the
\* start of the process
inputVars == << sp_in, sp_out, f_meals, f_diet, f_medical, f_out, f_out2, catalogVars,
               startVars >>
\* what no handler of the profile, the streak and the meal plan writes
pureVars == << inputVars, sessionVars >>
clockVars == << now, ticks >>
\* what these handlers leave alone
envVars == << clockVars, FIREBASE_AVAILABLE, admitted, pureVars >>

Returns(u, op, ret, streak) ==
    /\ conv' = [conv EXCEPT ![u] = ret]
    /\ ev' = [op |-> op, user |-> u, ret |-> ret, streak |-> streak]

Raises(u, op, streak) ==
    /\ conv' = conv
    /\ ev' = [op |-> op, user |-> u, ret |-> "raised", streak |-> streak]

HasKeys(d, keys) == keys \subseteq DOMAIN d

\* user_data = user_data_store.get(user_id); if not user_data: user_data =
\* await get_user_profile(user_id) -- [ret, store] for every outcome
lookup_user_data(store, docs, fb, u) ==
    IF u \in DOMAIN store /\ Truthy(store[u])
    THEN { [ret |-> Some(store[u]), store |-> store, query |-> "none"] }
    ELSE get_user_profile(store, docs, fb, u)

\* `if user_data:` / `if not user_data:` on an Optional[Dict]
Found(r) == r # None /\ Truthy(r[1])

\* the fields the handlers write into a profile
ProfileFields == {"name", "age", "gender", "state", "diet", "medical", "activity"}

\* user_data_store[user_id][field] = value, creating the entry if needed
put_field(store, u, field, value) ==
    DictSet(store, u, DictSet(IF u \in DOMAIN store THEN store[u] ELSE EmptyDict,
                              field, value))

\* /start, the entry point: handled only outside a conversation
start(u) ==
    /\ conv[u] = END
    /\ \E o \in get_user_profile(user_data_store, fb_docs, FIREBASE_AVAILABLE, u) :
         IF Found(o.ret)
         THEN \E s \in get_user_streak(user_streaks, fb_docs, FIREBASE_AVAILABLE, u) :
                /\ user_data_store' = o.store
                /\ user_streaks' = s.streaks
                /\ Replies(u, << "kb_menu" >>)
                /\ Returns(u, "start", MEAL_PLAN, None)
         ELSE /\ user_data_store' = DictSet(o.store, u, EmptyDict)
              /\ user_streaks' = user_streaks
              /\ Replies(u, << "kb_start_profile" >>)
              /\ Returns(u, "start", NAME, None)
    /\ UNCHANGED << envVars, fb_docs, user_rate_limits >>

\* buttons "start_profile" and "update_profile"
start_profile_creation(u, msg) ==
    /\ \/ Pressed(u, msg, "start_profile")
       \/ Pressed(u, msg, "update_profile")
    /\ Edits(u, msg, NoKeyboard)
    /\ Returns(u, "start_profile_creation", NAME, None)
    /\ UNCHANGED << envVars, fb_docs, user_data_store, user_streaks, user_rate_limits >>

\* faulty variant of handle_name: the name is stored before it is validated
handle_name_storing_first(u, text) ==
    /\ conv[u] = NAME
    /\ user_data_store' = put_field(user_data_store, u, "name", sanitize_name(strip(text)))
    /\ Returns(u, "handle_name", IF accepted_name(text) = None THEN NAME ELSE AGE, None)
    /\ Replies(u, NoKeyboard)
    /\ UNCHANGED << envVars, fb_docs, user_streaks, user_rate_limits >>

\* a text message in state NAME
handle_name(u, text) ==
    /\ conv[u] = NAME
    /\ LET a == accepted_name(text)
       IN  IF a = None
           THEN /\ user_data_store' = user_data_store
                /\ Returns(u, "handle_name", NAME, None)
           ELSE /\ user_data_store' = put_field(user_data_store, u, "name", a[1])
                /\ Returns(u, "handle_name", AGE, None)
    /\ Replies(u, NoKeyboard)
    /\ UNCHANGED << envVars, fb_docs, user_streaks, user_rate_limits >>

\* a text message in state AGE
handle_age(u, text) ==
    /\ conv[u] = AGE
    /\ LET a == accepted_age(text)
       IN  IF a = None
           THEN /\ user_data_store' = user_data_store
                /\ Replies(u, NoKeyboard)
                /\ Returns(u, "handle_age", AGE, None)
           ELSE /\ user_data_store' = put_field(user_data_store, u, "age", a[1])
                /\ Replies(u, << "kb_gender" >>)
                /\ Returns(u, "handle_age", GENDER, None)
    /\ UNCHANGED << envVars, fb_docs, user_streaks, user_rate_limits >>

\* a text message in state MEDICAL_CONDITION
handle_custom_medical(u, text) ==
    /\ conv[u] = MEDICAL_CONDITION
    /\ LET a == accepted_medical(text)
       IN  IF a = None
           THEN /\ user_data_store' = user_data_store
                /\ Replies(u, NoKeyboard)
                /\ Returns(u, "handle_custom_medical", MEDICAL_CONDITION, None)
           ELSE /\ user_data_store' = put_field(user_data_store, u, "medical", a[1])
                /\ Replies(u, << "kb_activity" >>)
                /\ Returns(u, "handle_custom_medical", ACTIVITY_LEVEL, None)
    /\ UNCHANGED << envVars, fb_docs, user_streaks, user_rate_limits >>

\* faulty variant of gender_selection: the draft is started anew
gender_selection_fresh_draft(u, msg, gender) ==
    /\ Pressed(u, msg, "gender_")
    /\ user_data_store' = DictSet(user_data_store, u, [k \in {"gender"} |-> gender])
    /\ Edits(u, msg, << "kb_state" >>)
    /\ Returns(u, "gender_selection", STATE_, None)
    /\ UNCHANGED << envVars, fb_docs, user_streaks, user_rate_limits >>

\* button "gender_<gender>"
gender_selection(u, msg, gender) ==
    /\ Pressed(u, msg, "gender_")
    /\ user_data_store' = put_field(user_data_store, u, "gender", gender)
    /\ Edits(u, msg, << "kb_state" >>)
    /\ Returns(u, "gender_selection", STATE_, None)
    /\ UNCHANGED << envVars, fb_docs, user_streaks, user_rate_limits >>

\* button "state_<state>"
state_selection(u, msg, state) ==
    /\ Pressed(u, msg, "state_")
    /\ user_data_store' = put_field(user_data_store, u, "state", state)
    /\ Edits(u, msg, << "kb_diet" >>)
    /\ Returns(u, "state_selection", DIET_TYPE, None)
    /\ UNCHANGED << envVars, fb_docs, user_streaks, user_rate_limits >>

\* button "diet_<diet>"
diet_selection(u, msg, diet) ==
    /\ Pressed(u, msg, "diet_")
    /\ user_data_store' = put_field(user_data_store, u, "diet", diet)
    /\ Edits(u, msg, << "kb_medical" >>)
    /\ Returns(u, "diet_selection", MEDICAL_CONDITION, None)
    /\ UNCHANGED << envVars, fb_docs, user_streaks, user_rate_limits >>

\* button "medical_<medical>"
medical_selection(u, msg, medical) ==
    /\ Pressed(u, msg, "medical_")
    /\ IF medical = s_other
       THEN /\ user_data_store' = user_data_store
            /\ Edits(u, msg, NoKeyboard)
            /\ Returns(u, "medical_selection", MEDICAL_CONDITION, None)
       ELSE /\ user_data_store' = put_field(user_data_store, u, "medical", medical)
            /\ Edits(u, msg, << "kb_activity" >>)
            /\ Returns(u, "medical_selection", ACTIVITY_LEVEL, None)
    /\ UNCHANGED << envVars, fb_docs, user_streaks, user_rate_limits >>

\* what activity_selection leaves: as Returns and Raises, and ev.saved tells
\* which of the two lines the completion message was composed with,
\* "Profile saved to database" (profile_saved) or "Profile saved to memory"
Completes(u, ret, streak, profile_saved) ==
    /\ conv' = IF ret = "raised" THEN conv ELSE [conv EXCEPT ![u] = ret]
    /\ ev' = [op |-> "activity_selection", user |-> u, ret |-> ret,
              streak |-> streak, saved |-> profile_saved]

\* the fields the completion message reads with user_data[...], lines 825-828
CompletionFields == {"gender", "state", "diet", "medical"}

\* button "activity_<activity>": the completion transition
activity_selection(u, msg, activity) ==
    /\ Pressed(u, msg, "activity_")
    /\ LET merged == put_field(user_data_store, u, "activity", activity)
       IN  \E w \in save_user_profile(merged, fb_docs, FIREBASE_AVAILABLE, u, merged[u]) :
           \E s \in update_user_streak(user_streaks, w.docs, FIREBASE_AVAILABLE, u, today) :
             /\ user_data_store' = w.store
             /\ fb_docs' = s.docs
             /\ user_streaks' = s.streaks
             \* the completion message reads user_data['gender'], ['state'],
             \* ['diet'] and ['medical']
             /\ IF HasKeys(w.store[u], CompletionFields)
                THEN /\ Edits(u, msg, << "kb_completed" >>)
                     /\ Completes(u, PROFILE, Some(s.ret), w.ret)
                ELSE /\ keyboards' = keyboards
                     /\ Completes(u, "raised", Some(s.ret), w.ret)
    /\ UNCHANGED << envVars, user_rate_limits >>

\* Spec bounds the admission checks a user issues inside one window; a
\* window one request short of the cap, or full, takes every check
BurstAllowed(u) ==
    IF u \notin DOMAIN user_rate_limits THEN TRUE
    ELSE IF now - user_rate_limits[u].last_reset > RATE_LIMIT_WINDOW THEN TRUE
    ELSE \/ Len(user_rate_limits[u].requests) < MaxBurst
         \/ Len(user_rate_limits[u].requests) >= MAX_REQUESTS_PER_WINDOW - 1

\* what get_meal_plan leaves: as Returns and Raises; ev.allowed tells what
\* check_rate_limit returned, and ev.bonus the N of "(+N today!)" in the
\* message, None when the message has no such part or was not sent
MealPlanEvent(u, ret, streak, bonus, allowed) ==
    /\ conv' = IF ret = "raised" THEN conv ELSE [conv EXCEPT ![u] = ret]
    /\ ev' = [op |-> "get_meal_plan", user |-> u, ret |-> ret, streak |-> streak,
              bonus |-> bonus, allowed |-> allowed]

\* lines 883-887: points_earned, 0 or a new draw of calculate_streak_points
shown_points(streak_data, td) ==
    IF streak_data.last_completed_date = Some(td)
    THEN calculate_streak_points(streak_data.streak_count)
    ELSE {0}

\* faulty variant of meal_plan_refused: the streak is updated before the
\* request is refused
meal_plan_refused_after_update(u, msg) ==
    /\ Edits(u, msg, NoKeyboard)
    /\ MealPlanEvent(u, MEAL_PLAN, None, None, FALSE)
    /\ \E s \in update_user_streak(user_streaks, fb_docs, FIREBASE_AVAILABLE, u, today) :
         /\ user_streaks' = s.streaks
         /\ fb_docs' = s.docs
    /\ UNCHANGED user_data_store

\* lines 858-865: the request is over the limit
meal_plan_refused(u, msg) ==
    /\ Edits(u, msg, NoKeyboard)
    /\ MealPlanEvent(u, MEAL_PLAN, None, None, FALSE)
    /\ UNCHANGED << user_data_store, user_streaks, fb_docs >>

\* lines 867-960: the request was let through
meal_plan_admitted(u, msg) ==
    \E o \in lookup_user_data(user_data_store, fb_docs, FIREBASE_AVAILABLE, u) :
      /\ user_data_store' = o.store
      /\ IF ~Found(o.ret)
         THEN /\ Edits(u, msg, << "kb_start_over" >>)
              /\ MealPlanEvent(u, END, None, None, TRUE)
              /\ UNCHANGED << user_streaks, fb_docs >>
         ELSE \E s \in update_user_streak(user_streaks, fb_docs,
                                          FIREBASE_AVAILABLE, u, today) :
                /\ user_streaks' = s.streaks
                /\ fb_docs' = s.docs
                \* user_data['state'], ['diet'], ['medical'], ['activity']
                /\ IF HasKeys(o.ret[1], {"state", "diet", "medical", "activity"})
                   THEN /\ Edits(u, msg, << "kb_meal_plan" >>)
                        /\ \E points_earned \in shown_points(s.ret, today) :
                             MealPlanEvent(u, MEAL_PLAN, Some(s.ret),
                                           IF points_earned > 0 THEN Some(points_earned)
                                           ELSE None,
                                           TRUE)
                   ELSE /\ keyboards' = keyboards
                        /\ MealPlanEvent(u, "raised", Some(s.ret), None, TRUE)

\* button "get_meal_plan"
get_meal_plan(u, msg) ==
    /\ Pressed(u, msg, "get_meal_plan")
    /\ BurstAllowed(u)
    /\ LET rl == check_rate_limit(user_rate_limits, u, now)
       IN  /\ user_rate_limits' = rl.limits
           /\ IF ~rl.ret
              THEN meal_plan_refused(u, msg)
              ELSE meal_plan_admitted(u, msg)
    /\ UNCHANGED envVars

\* button "view_profile"
show_user_profile(u, msg) ==
    /\ Pressed(u, msg, "view_profile")
    /\ \E o \in lookup_user_data(user_data_store, fb_docs, FIREBASE_AVAILABLE, u) :
         /\ user_data_store' = o.store
         /\ IF ~Found(o.ret)
            THEN /\ Edits(u, msg, << "kb_start_over" >>)
                 /\ Returns(u, "show_user_profile", END, None)
                 /\ user_streaks' = user_streaks
            ELSE \E s \in get_user_streak(user_streaks, fb_docs, FIREBASE_AVAILABLE, u) :
                   /\ user_streaks' = s.streaks
                   /\ IF HasKeys(o.ret[1], {"gender", "state", "diet", "medical", "activity"})
                      THEN /\ Edits(u, msg, << "kb_profile" >>)
                           /\ Returns(u, "show_user_profile", PROFILE, None)
                      ELSE /\ keyboards' = keyboards
                           /\ Raises(u, "show_user_profile", None)
    /\ UNCHANGED << envVars, fb_docs, user_rate_limits >>

\* button "streak_help"
show_streak_help(u, msg) ==
    /\ Pressed(u, msg, "streak_help")
    /\ Edits(u, msg, << "kb_streak_help" >>)
    /\ Returns(u, "show_streak_help", PROFILE, None)
    /\ UNCHANGED << envVars, fb_docs, user_data_store, user_streaks, user_rate_limits >>

\* button "go_back"
go_back(u, msg) ==
    /\ Pressed(u, msg, "go_back")
    /\ \E o \in lookup_user_data(user_data_store, fb_docs, FIREBASE_AVAILABLE, u) :
         /\ user_data_store' = o.store
         /\ IF Found(o.ret)
            THEN \E s \in get_user_streak(user_streaks, fb_docs, FIREBASE_AVAILABLE, u) :
                   /\ user_streaks' = s.streaks
                   /\ Edits(u, msg, << "kb_menu" >>)
                   /\ Returns(u, "go_back", MEAL_PLAN, None)
            ELSE /\ user_streaks' = user_streaks
                 /\ Edits(u, msg, << "kb_start_profile" >>)
                 /\ Returns(u, "go_back", NAME, None)
    /\ UNCHANGED << envVars, fb_docs, user_rate_limits >>

\* faulty variant of start_over: the profile cache is emptied as a whole
start_over_for_everyone(u, msg) ==
    /\ Pressed(u, msg, "start_over")
    /\ user_data_store' = EmptyDict
    /\ Edits(u, msg, << "kb_gender" >>)
    /\ Returns(u, "start_over", GENDER, None)
    /\ UNCHANGED << envVars, fb_docs, user_streaks, user_rate_limits >>

\* button "start_over"
start_over(u, msg) ==
    /\ Pressed(u, msg, "start_over")
    /\ user_data_store' = DictDel(user_data_store, u)
    /\ Edits(u, msg, << "kb_gender" >>)
    /\ Returns(u, "start_over", GENDER, None)
    /\ UNCHANGED << envVars, fb_docs, user_streaks, user_rate_limits >>

\* faulty variant of cancel: the conversation ends and the draft is kept
cancel_keeping_draft(u) ==
    /\ conv[u] # END
    /\ user_data_store' = user_data_store
    /\ Replies(u, NoKeyboard)
    /\ Returns(u, "cancel", END, None)
    /\ UNCHANGED << envVars, fb_docs, user_streaks, user_rate_limits >>

\* /cancel, the fallback: handled only inside a conversation
cancel(u) ==
    /\ conv[u] # END
    /\ user_data_store' = DictDel(user_data_store, u)
    /\ Replies(u, NoKeyboard)
    /\ Returns(u, "cancel", END, None)
    /\ UNCHANGED << envVars, fb_docs, user_streaks, user_rate_limits >>

----------------------------------------------------------------------------
(* Grocery list and cart.  button_handler dispatches on the callback data   *)
(* alone, in every state of the conversation, so a button of any message of *)
(* the chat can be pressed: these handlers take the item of the button, and *)
(* the messages of the chat are not followed.                               *)

\* ord(c) of a letter
Alphabet == <<"A","B","C","D","E","F","G","H","I","J","K","L","M",
              "N","O","P","Q","R","S","T","U","V","W","X","Y","Z">>
ord(c) ==
    IF c \in UpperLetters
    THEN 64 + (CHOOSE i \in 1..26 : Alphabet[i] = c)
    ELSE 96 + (CHOOSE i \in 1..26 : LowerChar(Alphabet[i]) = c)

\* a < b for two strings: by code point, a prefix first
RECURSIVE str_lt(_, _)
str_lt(a, b) ==
    IF b = << >> THEN FALSE
    ELSE IF a = << >> THEN TRUE
    ELSE IF Head(a) # Head(b) THEN ord(Head(a)) < ord(Head(b))
    ELSE str_lt(Tail(a), Tail(b))

\* faulty variant of list_sort: the list is left as it is
list_unsorted(list) == list

\* list.sort() on a list of strings
RECURSIVE list_sort(_)
list_sort(list) ==
    IF list = << >> THEN << >>
    ELSE LET rest == list_sort(Tail(list))
             before == SelectSeq(rest, LAMBDA x : str_lt(x, Head(list)))
             after == SelectSeq(rest, LAMBDA x : ~str_lt(x, Head(list)))
         IN  before \o << Head(list) >> \o after

\* list.remove(x): the first x is taken out
RECURSIVE list_remove(_, _)
list_remove(list, x) ==
    IF Head(list) = x THEN Tail(list)
    ELSE << Head(list) >> \o list_remove(Tail(list), x)

\* a callback query of u reaches button_handler
Dispatched(u) == conv[u] # END

ItemEvent(u, op, ret, item) ==
    /\ conv' = IF ret = "raised" THEN conv ELSE [conv EXCEPT ![u] = ret]
    /\ ev' = [op |-> op, user |-> u, ret |-> ret, streak |-> None, item |-> item]

shopFrame ==
    << clockVars, FIREBASE_AVAILABLE, admitted, inputVars, fb_docs, user_streaks,
       user_rate_limits, keyboards, context_user_data >>

\* button "add_item_<item_name>"
add_grocery_item(u, item_name) ==
    /\ Dispatched(u)
    /\ LET lists == IF u \notin DOMAIN grocery_lists
                    THEN DictSet(grocery_lists, u, << >>) ELSE grocery_lists
       IN  grocery_lists' =
               IF ~InList(item_name, lists[u])
               THEN DictSet(lists, u, list_sort(Append(lists[u], item_name)))
               ELSE lists
    /\ ItemEvent(u, "add_grocery_item", GROCERY_MANAGE, Some(item_name))
    /\ UNCHANGED << shopFrame, user_data_store, user_cart_selections >>

\* button "remove_item_<item_name>"
remove_grocery_item(u, item_name) ==
    /\ Dispatched(u)
    /\ grocery_lists' =
           IF u \in DOMAIN grocery_lists /\ InList(item_name, grocery_lists[u])
           THEN DictSet(grocery_lists, u, list_remove(grocery_lists[u], item_name))
           ELSE grocery_lists
    /\ ItemEvent(u, "remove_grocery_item", GROCERY_MANAGE, Some(item_name))
    /\ UNCHANGED << shopFrame, user_data_store, user_cart_selections >>

\* faulty variant of clear_grocery_list: the cart is emptied with the list
clear_grocery_list_and_cart(u) ==
    /\ Dispatched(u)
    /\ grocery_lists' = IF u \in DOMAIN grocery_lists
                        THEN DictSet(grocery_lists, u, << >>) ELSE grocery_lists
    /\ user_cart_selections' = IF u \in DOMAIN user_cart_selections
                               THEN DictSet(user_cart_selections, u, {})
                               ELSE user_cart_selections
    /\ ItemEvent(u, "clear_grocery_list", GROCERY_MANAGE, None)
    /\ UNCHANGED << shopFrame, user_data_store >>

\* button "clear_grocery_list"
clear_grocery_list(u) ==
    /\ Dispatched(u)
    /\ grocery_lists' = IF u \in DOMAIN grocery_lists
                        THEN DictSet(grocery_lists, u, << >>) ELSE grocery_lists
    /\ ItemEvent(u, "clear_grocery_list", GROCERY_MANAGE, None)
    /\ UNCHANGED << shopFrame, user_data_store, user_cart_selections >>

\* show_grocery_list: [ret, store] for every outcome.  Without a profile the
\* conversation ends; user_data['state'], ['diet'] and ['medical'] raise
\* KeyError on a profile without them; the loader returns a list that is not
\* empty, and neither the grocery list nor the cart is written
show_grocery_list(store, docs, fb, u) ==
    { [ret |-> IF ~Found(o.ret) THEN END
               ELSE IF HasKeys(o.ret[1], {"state", "diet", "medical"}) THEN MEAL_PLAN
               ELSE "raised",
       store |-> o.store] : o \in lookup_user_data(store, docs, fb, u) }

\* button "grocery_list"
ShowGroceryList(u) ==
    /\ Dispatched(u)
    /\ \E o \in show_grocery_list(user_data_store, fb_docs, FIREBASE_AVAILABLE, u) :
         /\ user_data_store' = o.store
         /\ ItemEvent(u, "show_grocery_list", o.ret, None)
    /\ UNCHANGED << shopFrame, shopVars >>

\* button "cart_toggle_<item_name>": the item is toggled, and the grocery
\* list is shown again
toggle_cart_item(u, item_name) ==
    /\ Dispatched(u)
    /\ LET carts == IF u \notin DOMAIN user_cart_selections
                    THEN DictSet(user_cart_selections, u, {}) ELSE user_cart_selections
       IN  user_cart_selections' =
               IF item_name \in carts[u]
               THEN DictSet(carts, u, carts[u] \ {item_name})
               ELSE DictSet(carts, u, carts[u] \cup {item_name})
    /\ \E o \in show_grocery_list(user_data_store, fb_docs, FIREBASE_AVAILABLE, u) :
         /\ user_data_store' = o.store
         /\ ItemEvent(u, "toggle_cart_item", o.ret, Some(item_name))
    /\ UNCHANGED << shopFrame, grocery_lists >>

\* the days a user stays away
DaySkips == {1, 2}

\* midnight passes, days times
NextDay(days) ==
    /\ ticks < MaxDays
    /\ now' = now + days * SecondsPerDay
    /\ ticks' = ticks + 1
    /\ UNCHANGED << FIREBASE_AVAILABLE, fb_docs, conv, user_data_store, user_streaks,
                    user_rate_limits, keyboards, ev, admitted, pureVars >>

----------------------------------------------------------------------------
(* Spec: the conversation of each user, from process start *)

NoEvent == [op |-> "none", user |-> "none", ret |-> "none", streak |-> None]

CatalogIdle ==
    /\ files = EmptyDict
    /\ l_state = << >> /\ l_out = None
    /\ plan = None

StartIdle == environ = None /\ process = None

\* lines 77-80: the stores of a process that has just started
SessionIdle ==
    /\ grocery_lists = EmptyDict
    /\ user_cart_selections = EmptyDict
    /\ context_user_data = EmptyDict

PureIdle ==
    /\ StartIdle
    /\ SessionIdle
    /\ sp_in = 0 /\ sp_out = None
    /\ f_meals = << >> /\ f_diet = << >> /\ f_medical = << >>
    /\ f_out = None /\ f_out2 = None
    /\ CatalogIdle

Init ==
    /\ now = 0
    /\ ticks = 0
    \* memory-only mode: firebase_admin is not installed
    /\ FIREBASE_AVAILABLE = FALSE
    /\ fb_docs = EmptyDict
    /\ conv = [u \in Users |-> END]
    /\ user_data_store = EmptyDict
    /\ user_streaks = EmptyDict
    /\ user_rate_limits = EmptyDict
    /\ keyboards = [u \in Users |-> << >>]
    /\ ev = NoEvent
    /\ admitted = [u \in Users |-> << >>]
    /\ PureIdle

Next ==
    \/ \E u \in Users : start(u)
    \/ \E u \in Users : \E msg \in DOMAIN keyboards[u] : start_profile_creation(u, msg)
    \/ \E u \in Users, text \in NameTexts : handle_name(u, text)
    \/ \E u \in Users, text \in AgeTexts : handle_age(u, text)
    \/ \E u \in Users, text \in MedicalTexts : handle_custom_medical(u, text)
    \/ \E u \in Users : \E msg \in DOMAIN keyboards[u], gender \in GenderChoices :
         gender_selection(u, msg, gender)
    \/ \E u \in Users : \E msg \in DOMAIN keyboards[u], state \in StateChoices :
         state_selection(u, msg, state)
    \/ \E u \in Users : \E msg \in DOMAIN keyboards[u], diet \in DietChoices :
         diet_selection(u, msg, diet)
    \/ \E u \in Users : \E msg \in DOMAIN keyboards[u], medical \in MedicalChoices \cup {s_other} :
         medical_selection(u, msg, medical)
    \/ \E u \in Users : \E msg \in DOMAIN keyboards[u], activity \in ActivityChoices :
         activity_selection(u, msg, activity)
    \/ \E u \in Users : \E msg \in DOMAIN keyboards[u] : get_meal_plan(u, msg)
    \/ \E u \in Users : \E msg \in DOMAIN keyboards[u] : show_user_profile(u, msg)
    \/ \E u \in Users : \E msg \in DOMAIN keyboards[u] : show_streak_help(u, msg)
    \/ \E u \in Users : \E msg \in DOMAIN keyboards[u] : go_back(u, msg)
    \/ \E u \in Users : \E msg \in DOMAIN keyboards[u] : start_over(u, msg)
    \/ \E u \in Users : cancel(u)
    \/ \E days \in DaySkips : NextDay(days)

Spec == Init /\ [][Next]_vars

----------------------------------------------------------------------------
(* SpecPoints: calculate_streak_points on its own *)

StreakCounts == (0 - 1)..MaxStreak

ConvIdle ==
    /\ now = 0
    /\ ticks = 0
    /\ FIREBASE_AVAILABLE = FALSE
    /\ fb_docs = EmptyDict
    /\ conv = [u \in Users |-> END]
    /\ user_data_store = EmptyDict
    /\ user_streaks = EmptyDict
    /\ user_rate_limits = EmptyDict
    /\ keyboards = [u \in Users |-> << >>]
    /\ ev = NoEvent
    /\ admitted = [u \in Users |-> << >>]

convVars == << FIREBASE_AVAILABLE, fb_docs, conv, user_data_store, user_streaks,
               keyboards >>

InitPoints ==
    /\ StartIdle
    /\ SessionIdle
    /\ ConvIdle
    /\ sp_in \in StreakCounts /\ sp_out = None
    /\ f_meals = << >> /\ f_diet = << >> /\ f_medical = << >>
    /\ f_out = None /\ f_out2 = None
    /\ CatalogIdle

CalculatePoints ==
    /\ sp_out = None
    /\ \E points \in calculate_streak_points(sp_in) : sp_out' = Some(points)
    /\ UNCHANGED << clockVars, convVars, user_rate_limits, ev, admitted, startVars, sessionVars, sp_in,
                    f_meals, f_diet, f_medical, f_out, f_out2, catalogVars >>

NextPoints == CalculatePoints

SpecPoints == InitPoints /\ [][NextPoints]_vars

----------------------------------------------------------------------------
(* SpecStreak: update_user_streak and get_user_streak called at will while  *)
(* the days pass, with and without the durable store                        *)

\* the documents the durable store holds when the process starts: none, or
\* the user's profile saved by an earlier process
PriorProfile ==
    [k \in ProfileFields |->
        IF k = "name" THEN <<"J","o">>
        ELSE IF k = "age" THEN 5
        ELSE IF k = "gender" THEN "male"
        ELSE IF k = "state" THEN "maharashtra"
        ELSE IF k = "diet" THEN s_jain
        ELSE IF k = "medical" THEN s_none
        ELSE "sedentary"]

PriorDocs ==
    { EmptyDict,
      [u \in Users |-> [profile |-> PriorProfile, streak_data |-> None]] }

InitStreak ==
    /\ now = 0
    /\ ticks = 0
    /\ FIREBASE_AVAILABLE \in BOOLEAN
    /\ fb_docs \in (IF FIREBASE_AVAILABLE THEN PriorDocs ELSE { EmptyDict })
    /\ conv = [u \in Users |-> END]
    /\ user_data_store = EmptyDict
    /\ user_streaks = EmptyDict
    /\ user_rate_limits = EmptyDict
    /\ keyboards = [u \in Users |-> << >>]
    /\ ev = NoEvent
    /\ admitted = [u \in Users |-> << >>]
    /\ PureIdle

StoredStreak(u) == IF u \in DOMAIN user_streaks THEN Some(user_streaks[u]) ELSE None

UpdateStreak(u) ==
    /\ \E s \in update_user_streak(user_streaks, fb_docs, FIREBASE_AVAILABLE, u, today) :
         /\ user_streaks' = s.streaks
         /\ fb_docs' = s.docs
         \* ev.ret tells whether the call returned the record it found
         /\ ev' = [op |-> "update_user_streak", user |-> u,
                   ret |-> IF Some(s.ret) = StoredStreak(u) THEN "unchanged" ELSE "updated",
                   streak |-> Some(s.ret)]
    /\ UNCHANGED << clockVars, FIREBASE_AVAILABLE, conv, user_data_store, keyboards,
                    user_rate_limits, admitted, pureVars >>

GetStreak(u) ==
    /\ \E s \in get_user_streak(user_streaks, fb_docs, FIREBASE_AVAILABLE, u) :
         /\ user_streaks' = s.streaks
         /\ ev' = [op |-> "get_user_streak", user |-> u, ret |-> "returned",
                   streak |-> None]
    /\ UNCHANGED << clockVars, FIREBASE_AVAILABLE, fb_docs, conv, user_data_store,
                    keyboards, user_rate_limits, admitted, pureVars >>

StreakDay(days) ==
    /\ ticks < MaxStreakDays
    /\ now' = now + days * SecondsPerDay
    /\ ticks' = ticks + 1
    /\ UNCHANGED << convVars, user_rate_limits, ev, admitted, pureVars >>

NextStreak ==
    \/ \E u \in Users : UpdateStreak(u)
    \/ \E u \in Users : GetStreak(u)
    \/ \E days \in DaySkips : StreakDay(days)

SpecStreak == InitStreak /\ [][NextStreak]_vars

----------------------------------------------------------------------------
(* SpecRestart: the streak engine in a process that has just started, its   *)
(* caches empty, while the durable store holds what an earlier process left *)

\* a streak of n days whose last completion was on day 0; the total is what
\* the least award of each day adds up to
DurableStreak(n) ==
    [streak_count |-> n, last_completed_date |-> Some(0), streak_points_total |-> 2 * n]

InitRestart ==
    /\ now = 0
    /\ ticks = 0
    /\ FIREBASE_AVAILABLE = TRUE
    /\ fb_docs \in { [u \in Users |-> [profile |-> PriorProfile,
                                      streak_data |-> Some(DurableStreak(n))]] :
                       n \in 1..MaxDurableStreak }
    /\ conv = [u \in Users |-> END]
    /\ user_data_store = EmptyDict
    /\ user_streaks = EmptyDict
    /\ user_rate_limits = EmptyDict
    /\ keyboards = [u \in Users |-> << >>]
    /\ ev = NoEvent
    /\ admitted = [u \in Users |-> << >>]
    /\ PureIdle

NextRestart ==
    \/ \E u \in Users : UpdateStreak(u)
    \/ \E u \in Users : GetStreak(u)
    \/ \E days \in DaySkips : StreakDay(days)

SpecRestart == InitRestart /\ [][NextRestart]_vars

----------------------------------------------------------------------------
(* SpecStore: save_user_profile and get_user_profile called at will, with   *)
(* and without the durable store, the cache entry deleted now and then      *)

\* two users of the bot
StoreUsers == {"u1", "u2"}

\* the profiles handed to save_user_profile
\* a complete profile, the same with another diet, and the profile
\* activity_selection writes after start_over (no name, no age)
StoreProfiles ==
    { PriorProfile,
      [PriorProfile EXCEPT !["diet"] = s_vegan],
      [k \in ProfileFields \ {"name", "age"} |-> PriorProfile[k]] }

\* the cache of a process that has just started holds nothing, or the empty
\* draft /start leaves for a user whose profile it did not find
InitStore ==
    /\ now = 0
    /\ ticks = 0
    /\ FIREBASE_AVAILABLE \in BOOLEAN
    /\ fb_docs \in (IF FIREBASE_AVAILABLE
                   THEN { [u \in U |-> [profile |-> PriorProfile, streak_data |-> None]] :
                            U \in SUBSET StoreUsers }
                   ELSE { EmptyDict })
    /\ conv = [u \in Users |-> END]
    /\ user_data_store \in { [u \in U |-> EmptyDict] : U \in SUBSET StoreUsers }
    /\ user_streaks = EmptyDict
    /\ user_rate_limits = EmptyDict
    /\ keyboards = [u \in Users |-> << >>]
    /\ ev = NoEvent
    /\ admitted = [u \in Users |-> << >>]
    /\ PureIdle

storeFrame ==
    << clockVars, FIREBASE_AVAILABLE, conv, user_streaks, keyboards,
       user_rate_limits, admitted, pureVars >>

\* ev.profile is the profile written
SaveProfile(u, profile_data) ==
    /\ \E w \in save_user_profile(user_data_store, fb_docs, FIREBASE_AVAILABLE,
                                  u, profile_data) :
         /\ user_data_store' = w.store
         /\ fb_docs' = w.docs
         /\ ev' = [op |-> "save_user_profile", user |-> u,
                   ret |-> IF w.ret THEN "True" ELSE "False", streak |-> None,
                   query |-> "none", profile |-> Some(profile_data)]
    /\ UNCHANGED storeFrame

\* ev.profile is what the call returned
GetProfile(u) ==
    /\ \E o \in get_user_profile(user_data_store, fb_docs, FIREBASE_AVAILABLE, u) :
         /\ user_data_store' = o.store
         /\ ev' = [op |-> "get_user_profile", user |-> u,
                   ret |-> "returned", streak |-> None,
                   query |-> o.query, profile |-> o.ret]
    /\ UNCHANGED << storeFrame, fb_docs >>

\* del user_data_store[user_id], as cancel and start_over do
DeleteCached(u) ==
    /\ u \in DOMAIN user_data_store
    /\ user_data_store' = DictDel(user_data_store, u)
    /\ ev' = [op |-> "del", user |-> u, ret |-> "returned", streak |-> None,
              query |-> "none", profile |-> None]
    /\ UNCHANGED << storeFrame, fb_docs >>

NextStore ==
    \/ \E u \in StoreUsers, profile_data \in StoreProfiles : SaveProfile(u, profile_data)
    \/ \E u \in StoreUsers : GetProfile(u)
    \/ \E u \in StoreUsers : DeleteCached(u)

SpecStore == InitStore /\ [][NextStore]_vars

----------------------------------------------------------------------------
(* SpecCompletion: the completion transition and what the user can do after *)
(* it, with and without the durable store. The conversation of each user is *)
(* at the activity question.                                                *)

\* the streak a returning user completed the day before
PriorStreak ==
    [streak_count |-> 2, last_completed_date |-> Some(0), streak_points_total |-> 6]

\* the streak of a user who asked for a meal plan today, the third day in a
\* row, before pressing Update Profile
TodayStreak ==
    [streak_count |-> 3, last_completed_date |-> Some(1), streak_points_total |-> 14]

\* the drafts the activity question can find: the six answers of a new user,
\* the old profile of a user who pressed Update Profile, the four answers
\* after Start Over, and the two answers given on a diet keyboard that stayed
\* in the chat after /cancel
CompletionDrafts ==
    { [k \in ProfileFields \ {"activity"} |-> PriorProfile[k]],
      PriorProfile,
      [k \in CompletionFields |-> PriorProfile[k]],
      [k \in {"diet", "medical"} |-> PriorProfile[k]] }

CompletionDocs ==
    PriorDocs \cup
    { [u \in Users |-> [profile |-> PriorProfile, streak_data |-> Some(streak)]] :
          streak \in { PriorStreak, TodayStreak } }

InitCompletion ==
    /\ now = SecondsPerDay
    /\ ticks = 0
    /\ FIREBASE_AVAILABLE \in BOOLEAN
    /\ fb_docs \in (IF FIREBASE_AVAILABLE THEN CompletionDocs ELSE { EmptyDict })
    /\ conv = [u \in Users |-> ACTIVITY_LEVEL]
    /\ user_data_store \in [Users -> CompletionDrafts]
    /\ user_streaks \in { EmptyDict, [u \in Users |-> PriorStreak],
                         [u \in Users |-> TodayStreak] }
    /\ user_rate_limits = EmptyDict
    /\ keyboards = [u \in Users |-> << "kb_activity" >>]
    /\ ev = NoEvent
    /\ admitted = [u \in Users |-> << >>]
    /\ PureIdle

NextCompletion ==
    \/ \E u \in Users : \E msg \in DOMAIN keyboards[u], activity \in ActivityChoices :
         activity_selection(u, msg, activity)
    \/ \E u \in Users : \E msg \in DOMAIN keyboards[u] : show_user_profile(u, msg)
    \/ \E u \in Users : \E msg \in DOMAIN keyboards[u] : show_streak_help(u, msg)
    \/ \E u \in Users : \E msg \in DOMAIN keyboards[u] : get_meal_plan(u, msg)
    \/ \E u \in Users : \E msg \in DOMAIN keyboards[u] : go_back(u, msg)
    \/ \E u \in Users : cancel(u)
    \/ \E u \in Users : start(u)

SpecCompletion == InitCompletion /\ [][NextCompletion]_vars

----------------------------------------------------------------------------
(* SpecStartup: the statements the module runs when the process starts,     *)
(* from the end of the imports to application.run_polling()                 *)

\* sys.version_info, as << major, minor >>
PythonVersions == { <<3, 9>>, <<3, 10>>, <<3, 11>>, <<3, 12>> }

\* os.getenv('BOT_TOKEN'): None when unset, else the text
BotTokens ==
    { None, Some(<< >>), Some(<<"a", "b", "c">>), Some(<<"1", ":", "a">>),
      Some(<<"1", ":", "a", ":", "b">>) }

\* what the process finds: the interpreter, the token, whether firebase_admin
\* can be imported, whether the credentials file exists, and whether the
\* connection to Firestore can be made
Environments ==
    [python : PythonVersions, BOT_TOKEN : BotTokens, firebase_admin : BOOLEAN,
     credentials_file : BOOLEAN, firebase_connects : BOOLEAN]

\* `not BOT_TOKEN`
NoToken(token) == token = None \/ token = Some(<< >>)

\* BOT_TOKEN.count(':')
Colons(token) == Len(SelectSeq(token[1], LAMBDA c : c = ":"))

At(statement) == [at |-> statement, exit |-> None]
\* sys.exit(code), or the end of the script
Exited(code) == [at |-> "exited", exit |-> Some(code)]

\* the state after lines 35-41: FIREBASE_AVAILABLE tells whether the import
\* succeeded
InitStartup ==
    /\ now = 0
    /\ ticks = 0
    /\ environ \in Environments
    /\ FIREBASE_AVAILABLE = environ.firebase_admin
    /\ process = At("python_check")
    /\ SessionIdle
    /\ fb_docs = EmptyDict
    /\ conv = [u \in Users |-> END]
    /\ user_data_store = EmptyDict
    /\ user_streaks = EmptyDict
    /\ user_rate_limits = EmptyDict
    /\ keyboards = [u \in Users |-> << >>]
    /\ ev = NoEvent
    /\ admitted = [u \in Users |-> << >>]
    /\ sp_in = 0 /\ sp_out = None
    /\ f_meals = << >> /\ f_diet = << >> /\ f_medical = << >>
    /\ f_out = None /\ f_out2 = None
    /\ CatalogIdle

startupFrame ==
    << clockVars, fb_docs, conv, user_data_store, user_streaks, user_rate_limits,
       keyboards, ev, admitted, sp_in, sp_out, f_meals, f_diet, f_medical, f_out,
       f_out2, catalogVars, environ, sessionVars >>

\* lines 55-57
CheckPythonVersion ==
    /\ process.at = "python_check"
    /\ process' = IF environ.python \in { <<3, 10>>, <<3, 11>> }
                  THEN At("token_check") ELSE Exited(1)
    /\ UNCHANGED << startupFrame, FIREBASE_AVAILABLE >>

\* lines 60-62
CheckBotToken ==
    /\ process.at = "token_check"
    /\ process' = IF NoToken(environ.BOT_TOKEN) THEN Exited(1)
                  ELSE At("credentials_check")
    /\ UNCHANGED << startupFrame, FIREBASE_AVAILABLE >>

\* lines 65-68
CheckCredentials ==
    /\ process.at = "credentials_check"
    /\ process' = IF FIREBASE_AVAILABLE /\ ~environ.credentials_file THEN Exited(1)
                  ELSE At("firebase_setup")
    /\ UNCHANGED << startupFrame, FIREBASE_AVAILABLE >>

\* lines 90-108: with or without the credentials file, an exception of the
\* connection turns the durable store off
SetupFirebase ==
    /\ process.at = "firebase_setup"
    /\ FIREBASE_AVAILABLE' = (FIREBASE_AVAILABLE /\ environ.firebase_connects)
    /\ process' = At("main")
    /\ UNCHANGED startupFrame

\* main(), lines 1929-1993: it returns, and the script ends, on a token it
\* does not take; else it serves
Main ==
    /\ process.at = "main"
    /\ process' = IF NoToken(environ.BOT_TOKEN) THEN Exited(0)
                  ELSE IF Colons(environ.BOT_TOKEN) # 1 THEN Exited(0)
                  ELSE At("run_polling")
    /\ UNCHANGED << startupFrame, FIREBASE_AVAILABLE >>

NextStartup ==
    \/ CheckPythonVersion
    \/ CheckBotToken
    \/ CheckCredentials
    \/ SetupFirebase
    \/ Main

SpecStartup == InitStartup /\ [][NextStartup]_vars

----------------------------------------------------------------------------
(* SpecShop: the grocery list and the cart of a user inside a conversation, *)
(* memory-only                                                              *)

s_Oil == <<"O","i","l">>
s_Rice == <<"R","i","c","e">>
s_oil == <<"o","i","l">>

\* the items the buttons of the chat name
GroceryItems == { s_Oil, s_Rice, s_oil }

\* the user with a profile at the menu, the user asked for a name (an empty
\* draft), and the user asked for a region (a draft without state)
ShopStarts ==
    { [conv |-> MEAL_PLAN, store |-> [u \in Users |-> PriorProfile]],
      [conv |-> NAME, store |-> [u \in Users |-> EmptyDict]],
      [conv |-> STATE_, store |-> [u \in Users |->
                                     [k \in {"name", "age", "gender"} |-> PriorProfile[k]]]] }

InitShop ==
    /\ now = 0
    /\ ticks = 0
    /\ FIREBASE_AVAILABLE = FALSE
    /\ fb_docs = EmptyDict
    /\ \E st \in ShopStarts :
         /\ conv = [u \in Users |-> st.conv]
         /\ user_data_store = st.store
    /\ user_streaks = EmptyDict
    /\ user_rate_limits = EmptyDict
    /\ keyboards = [u \in Users |-> << >>]
    /\ ev = NoEvent
    /\ admitted = [u \in Users |-> << >>]
    /\ PureIdle

NextShop ==
    \/ \E u \in Users, item \in GroceryItems : add_grocery_item(u, item)
    \/ \E u \in Users, item \in GroceryItems : remove_grocery_item(u, item)
    \/ \E u \in Users : clear_grocery_list(u)
    \/ \E u \in Users, item \in GroceryItems : toggle_cart_item(u, item)
    \/ \E u \in Users : ShowGroceryList(u)

SpecShop == InitShop /\ [][NextShop]_vars

----------------------------------------------------------------------------
(* SpecUsers: two users of one process, memory-only.  The visitor comes as  *)
(* a new user and goes through the conversation; the shopper has a profile, *)
(* a streak, a rate window, a grocery list and a cart, and edits the list   *)
(* and the cart meanwhile.                                                  *)

Visitor == "u1"
Shopper == "u2"
TwoUsers == { Visitor, Shopper }

\* the shopper asked for a meal plan a moment ago: the first completion
ShopperStreak ==
    [streak_count |-> 1, last_completed_date |-> Some(1), streak_points_total |-> 3]

\* the item on the buttons the shopper presses
ShopperItems == { s_Oil }

InitUsers ==
    /\ now = SecondsPerDay
    /\ ticks = 0
    /\ FIREBASE_AVAILABLE = FALSE
    /\ fb_docs = EmptyDict
    /\ conv = [u \in TwoUsers |-> IF u = Shopper THEN MEAL_PLAN ELSE END]
    /\ user_data_store = [u \in { Shopper } |-> PriorProfile]
    /\ user_streaks = [u \in { Shopper } |-> ShopperStreak]
    /\ user_rate_limits = [u \in { Shopper } |-> [requests |-> << now >>, last_reset |-> now]]
    /\ keyboards = [u \in TwoUsers |-> << >>]
    /\ ev = NoEvent
    /\ admitted = [u \in TwoUsers |-> << >>]
    \* the visitor kept a list and a cart from an earlier conversation
    /\ grocery_lists = [u \in TwoUsers |-> IF u = Shopper THEN << s_Oil >> ELSE << s_Rice >>]
    /\ user_cart_selections = [u \in TwoUsers |-> IF u = Shopper THEN { s_Rice } ELSE { s_Oil }]
    /\ context_user_data = EmptyDict
    /\ StartIdle
    /\ sp_in = 0 /\ sp_out = None
    /\ f_meals = << >> /\ f_diet = << >> /\ f_medical = << >>
    /\ f_out = None /\ f_out2 = None
    /\ CatalogIdle

NextUsers ==
    \/ start(Visitor)
    \/ \E msg \in DOMAIN keyboards[Visitor] : start_profile_creation(Visitor, msg)
    \/ \E text \in NameTexts : handle_name(Visitor, text)
    \/ \E text \in AgeTexts : handle_age(Visitor, text)
    \/ \E text \in MedicalTexts : handle_custom_medical(Visitor, text)
    \/ \E msg \in DOMAIN keyboards[Visitor], gender \in GenderChoices :
         gender_selection(Visitor, msg, gender)
    \/ \E msg \in DOMAIN keyboards[Visitor], state \in StateChoices :
         state_selection(Visitor, msg, state)
    \/ \E msg \in DOMAIN keyboards[Visitor], diet \in DietChoices :
         diet_selection(Visitor, msg, diet)
    \/ \E msg \in DOMAIN keyboards[Visitor], medical \in MedicalChoices \cup {s_other} :
         medical_selection(Visitor, msg, medical)
    \/ \E msg \in DOMAIN keyboards[Visitor], activity \in ActivityChoices :
         activity_selection(Visitor, msg, activity)
    \/ \E msg \in DOMAIN keyboards[Visitor] : get_meal_plan(Visitor, msg)
    \/ \E msg \in DOMAIN keyboards[Visitor] : show_user_profile(Visitor, msg)
    \/ \E msg \in DOMAIN keyboards[Visitor] : show_streak_help(Visitor, msg)
    \/ \E msg \in DOMAIN keyboards[Visitor] : go_back(Visitor, msg)
    \/ \E msg \in DOMAIN keyboards[Visitor] : start_over(Visitor, msg)
    \/ cancel(Visitor)
    \/ \E item \in ShopperItems : add_grocery_item(Shopper, item)
    \/ \E item \in ShopperItems : remove_grocery_item(Shopper, item)
    \/ clear_grocery_list(Shopper)
    \/ \E item \in ShopperItems : toggle_cart_item(Shopper, item)
    \/ ShowGroceryList(Shopper)

SpecUsers == InitUsers /\ [][NextUsers]_vars

----------------------------------------------------------------------------
(* SpecRate: check_rate_limit called at will while the clock advances *)

\* seconds between two bursts of calls
TickSizes == {30, 31}

RateCheck(u) ==
    /\ LET rl == check_rate_limit(user_rate_limits, u, now)
       IN  /\ user_rate_limits' = rl.limits
           /\ ev' = [op |-> "check_rate_limit", user |-> u,
                     ret |-> IF rl.ret THEN "True" ELSE "False", streak |-> None]
           /\ admitted' = [admitted EXCEPT ![u] = IF rl.ret THEN Append(@, now) ELSE @]
    /\ UNCHANGED << clockVars, convVars, pureVars >>

RateTick(seconds) ==
    /\ ticks < MaxTicks
    /\ now' = now + seconds
    /\ ticks' = ticks + 1
    /\ UNCHANGED << convVars, user_rate_limits, ev, admitted, pureVars >>

InitRate == ConvIdle /\ PureIdle

NextRate ==
    \/ \E u \in Users : RateCheck(u)
    \/ \E seconds \in TickSizes : RateTick(seconds)

SpecRate == InitRate /\ [][NextRate]_vars

----------------------------------------------------------------------------
(* SpecMealPlan: a user on the menu asks for meal plans while the window of *)
(* the rate limiter is empty, one request short of the cap, or full         *)

\* the requests the window holds at the start
WindowFills == { 0, MAX_REQUESTS_PER_WINDOW - 1, MAX_REQUESTS_PER_WINDOW }

\* n requests logged at second t
Burst(n, t) == [i \in 1..n |-> t]

InitMealPlan ==
    /\ now = SecondsPerDay
    /\ ticks = 0
    /\ FIREBASE_AVAILABLE \in BOOLEAN
    /\ fb_docs \in (IF FIREBASE_AVAILABLE THEN CompletionDocs ELSE { EmptyDict })
    /\ conv = [u \in Users |-> MEAL_PLAN]
    /\ user_data_store \in { EmptyDict, [u \in Users |-> PriorProfile] }
    /\ user_streaks \in { EmptyDict, [u \in Users |-> PriorStreak],
                         [u \in Users |-> TodayStreak] }
    /\ \E n \in WindowFills :
         user_rate_limits = [u \in Users |-> [requests |-> Burst(n, now),
                                              last_reset |-> now]]
    /\ keyboards = [u \in Users |-> << "kb_menu", "kb_menu" >>]
    /\ ev = NoEvent
    /\ admitted = [u \in Users |-> << >>]
    /\ PureIdle

NextMealPlan ==
    \/ \E u \in Users : \E msg \in DOMAIN keyboards[u] : get_meal_plan(u, msg)
    \/ \E u \in Users : \E msg \in DOMAIN keyboards[u] : show_user_profile(u, msg)
    \/ \E u \in Users : \E msg \in DOMAIN keyboards[u] : go_back(u, msg)
    \/ \E u \in Users : cancel(u)
    \/ \E u \in Users : start(u)
    \/ \E seconds \in TickSizes : RateTick(seconds)

SpecMealPlan == InitMealPlan /\ [][NextMealPlan]_vars

----------------------------------------------------------------------------
(* SpecFilter: filter_meals_by_preferences on catalogs of up to MaxCatalog  *)
(* meals, and on its own output                                             *)

s_Onion == <<"O","n","i","o","n">>
s_coconut_milk == s_coconut \o <<" ">> \o s_milk
s_High == <<"H","i","g","h">>
s_Diabetes == <<"D","i","a","b","e","t","e","s">>

Meal(name, ingredients, calories) ==
    [k \in {"Food Item", "Ingredients", "approx_calories"} |->
        IF k = "Food Item" THEN name
        ELSE IF k = "Ingredients" THEN ingredients
        ELSE <<calories>>]

WithLevel(meal, level) ==
    [k \in DOMAIN meal \cup {"Calorie Level"} |->
        IF k = "Calorie Level" THEN level ELSE meal[k]]

MealPool ==
    { WithLevel(Meal(<<"a">>, <<s_rice, s_onion>>, 200), s_low),
      WithLevel(Meal(<<"b">>, <<s_rice, s_milk>>, 450), s_High),
      WithLevel(Meal(<<"c">>, <<s_coconut_milk, s_Onion>>, 300), s_very_high),
      Meal(<<"d">>, <<s_rice>>, 150),
      [k \in {"Ingredients"} |-> <<s_rice>>] }

RECURSIVE Lists(_, _)
Lists(pool, n) ==
    IF n = 0 THEN { << >> }
    ELSE LET shorter == Lists(pool, n - 1)
         IN  shorter \cup { Append(l, m) : l \in shorter, m \in pool }

FilterDiets == { s_jain, s_vegan, s_veg }
FilterMedicals == { s_none, s_Diabetes, s_thyroid }

InitFilter ==
    /\ StartIdle
    /\ SessionIdle
    /\ ConvIdle
    /\ sp_in = 0 /\ sp_out = None
    /\ f_meals \in Lists(MealPool, MaxCatalog)
    /\ f_diet \in FilterDiets
    /\ f_medical \in FilterMedicals
    /\ f_out = None /\ f_out2 = None
    /\ CatalogIdle

FilterOnce ==
    /\ f_out = None
    /\ f_out' = Some(filter_meals_by_preferences(f_meals, f_diet, f_medical))
    /\ UNCHANGED << clockVars, convVars, user_rate_limits, ev, admitted, startVars, sessionVars, sp_in, sp_out,
                    f_meals, f_diet, f_medical, f_out2, catalogVars >>

FilterAgain ==
    /\ f_out # None /\ f_out2 = None
    /\ f_out2' = Some(filter_meals_by_preferences(f_out[1], f_diet, f_medical))
    /\ UNCHANGED << clockVars, convVars, user_rate_limits, ev, admitted, startVars, sessionVars, sp_in, sp_out,
                    f_meals, f_diet, f_medical, f_out, catalogVars >>

NextFilter == FilterOnce \/ FilterAgain

SpecFilter == InitFilter /\ [][NextFilter]_vars

----------------------------------------------------------------------------
(* SpecText: the three questions answered by typing, and the medical        *)
(* keyboard, on every text of up to MaxText characters and some longer ones *)

TextAlphabet == {"a", "A", "0", "1", "2", "²", " ", "_", "-", "'", ","}

LongTexts ==
    { Repeat("a", 50), Repeat("a", 51), Repeat("a", 50) \o <<"_">>,
      <<" ">> \o Repeat("a", 50) \o <<" ">>,
      Repeat("a", 200), Repeat("a", 201), Repeat("a", 200) \o <<"_">>,
      <<"a", "b">> \o Repeat("!", 198), <<" ">> \o Repeat("a", 200) }

ChosenTexts ==
    { <<"1", "2", "0">>, <<"1", "2", "1">>, <<"1", "a", "2">>, <<"0", "0", "7">>,
      <<"-", "5">>, <<"1", "²">>, <<"a", "_", "b">>, <<"_", "a", "_">>,
      <<" ", "a", "b", " ">>, <<"a", ",", "b">>, <<"a", "'", "b">>, <<"a", " ", "b">> }

Texts == Lists(TextAlphabet, MaxText) \cup ChosenTexts \cup LongTexts

\* the draft when the question of a state is asked
DraftAt(state) ==
    IF state = NAME THEN EmptyDict
    ELSE [k \in {"name", "age", "gender", "state", "diet"} |-> PriorProfile[k]]

InitText ==
    /\ now = 0
    /\ ticks = 0
    /\ FIREBASE_AVAILABLE = FALSE
    /\ fb_docs = EmptyDict
    /\ \E state \in {NAME, MEDICAL_CONDITION} :
         /\ conv = [u \in Users |-> state]
         /\ user_data_store = [u \in Users |-> DraftAt(state)]
         /\ keyboards = [u \in Users |-> IF state = NAME THEN << >>
                                         ELSE << "kb_medical" >>]
    /\ user_streaks = EmptyDict
    /\ user_rate_limits = EmptyDict
    /\ ev = NoEvent
    /\ admitted = [u \in Users |-> << >>]
    /\ PureIdle

NextText ==
    \/ \E u \in Users, text \in Texts : handle_name(u, text)
    \/ \E u \in Users, text \in Texts : handle_age(u, text)
    \/ \E u \in Users, text \in Texts : handle_custom_medical(u, text)
    \/ \E u \in Users : \E msg \in DOMAIN keyboards[u], medical \in MedicalChoices \cup {s_other} :
         medical_selection(u, msg, medical)

SpecText == InitText /\ [][NextText]_vars

----------------------------------------------------------------------------
(* SpecLoader: load_meal_data_from_json on a working directory that holds   *)
(* no JSON file or one, of every kind of content                            *)

\* the largest number of top-level items of a JSON document
MaxSource == 2

s_Maharashtra == <<"M","a","h","a","r","a","s","h","t","r","a">>
s_goa == <<"g","o","a">>
s_goa_json == s_goa \o s_dot_json
s_ok == <<"o","k">>

\* valid meals
Idli == JMeal(<<"I","d","l","i">>, <<s_rice>>, 120, s_ok, s_low)
Dosa == JMeal(<<"D","o","s","a">>, <<s_rice, s_ghee>>, 170, s_ok, s_medium)
Vada == JMeal(<<"V","a","d","a">>, <<s_curd>>, 200, s_ok, s_High)
\* meals that break an invariant: calories of 0, a name that is a number
ZeroCalories == JMeal(<<"T","e","a">>, <<s_milk>>, 0, s_ok, s_low)
Unnamed ==
    JDict([k \in {"Food Item", "Ingredients", "approx_calories"} |->
              IF k = "Food Item" THEN JInt(5)
              ELSE IF k = "Ingredients" THEN JList(<< JStr(s_rice) >>)
              ELSE JInt(100)])
\* entries that are not records
Note == JStr(<<"x">>)
Seven == JInt(7)

Group(items) == JDict([k \in {"Items"} |-> items])

\* the top-level items of a document: flat records, a record with neither
\* key, a text, and grouped records
SourceItems ==
    { Idli, Unnamed, JDict([k \in {"region"} |-> JStr(s_goa)]), Note,
      Group(JList(<< Dosa, Vada >>)),
      Group(JList(<< Dosa, ZeroCalories >>)),
      Group(JList(<< Dosa, Note >>)),
      Group(JList(<< Seven, Dosa >>)),
      Group(JList(<< ZeroCalories >>)),
      Group(JList(<< >>)),
      Group(JStr(<<"a","b">>)),
      Group(JNull) }

\* what opening and parsing a file gives
FileContents ==
    { [parsed |-> FALSE, error |-> "JSONDecodeError"],
      [parsed |-> FALSE, error |-> "OSError"] }
    \cup { [parsed |-> TRUE, data |-> JList(l)] : l \in Lists(SourceItems, MaxSource) }
    \cup { [parsed |-> TRUE, data |-> d] : d \in { JNull, Group(JList(<< Dosa >>)) } }

Directories ==
    { EmptyDict }
    \cup { [f \in {name} |-> content] :
               name \in {s_maharastra_json, s_goa_json}, content \in FileContents }

Regions == { s_Maharashtra, s_goa }

InitLoader ==
    /\ StartIdle
    /\ SessionIdle
    /\ ConvIdle
    /\ sp_in = 0 /\ sp_out = None
    /\ f_meals = << >> /\ f_diet = << >> /\ f_medical = << >>
    /\ f_out = None /\ f_out2 = None
    /\ files \in Directories
    /\ l_state \in Regions
    /\ l_out = None
    /\ plan = None

Load ==
    /\ l_out = None
    /\ l_out' = Some(load_meal_data_from_json(files, l_state))
    /\ UNCHANGED << clockVars, convVars, user_rate_limits, ev, admitted, startVars, sessionVars, sp_in, sp_out,
                    f_meals, f_diet, f_medical, f_out, f_out2, files, l_state, plan >>

NextLoader == Load

SpecLoader == InitLoader /\ [][NextLoader]_vars

----------------------------------------------------------------------------
(* SpecPlan: the four handlers that present meals, called at will for a     *)
(* user whose stored profile holds f_diet and f_medical, on the catalog     *)
(* f_meals the loader returned for the user's region                        *)

\* the largest catalog given to the meal handlers under SpecPlan
MaxPlanCatalog == 5

min(a, b) == IF a < b THEN a ELSE b

\* list[:n]
Prefix(list, n) == SubSeq(list, 1, min(n, Len(list)))

\* list * n
RECURSIVE Times(_, _)
Times(list, n) == IF n <= 0 THEN << >> ELSE list \o Times(list, n - 1)

\* the list without its i-th element
Without(list, i) == SubSeq(list, 1, i - 1) \o SubSeq(list, i + 1, Len(list))

\* random.sample(population, k): every list of k elements taken at distinct
\* positions of the population
RECURSIVE sample(_, _)
sample(population, k) ==
    IF k = 0 THEN { << >> }
    ELSE UNION { { << population[i] >> \o rest :
                       rest \in sample(Without(population, i), k - 1) } :
                 i \in 1..Len(population) }

\* lines 903-907, 1138-1141 and 1602-1605: the filtered meals, or the first
\* four meals of the catalog when fewer than four survive
filtered_or_prefix(meals, diet_type, medical_condition) ==
    LET filtered_meals == filter_meals_by_preferences(meals, diet_type, medical_condition)
    IN  IF Len(filtered_meals) < 4 THEN Prefix(meals, 4) ELSE filtered_meals

\* get_meal_plan, lines 903-910: the selected_meals one call may present
selected_meals(meals, diet_type, medical_condition) ==
    LET filtered_meals == filtered_or_prefix(meals, diet_type, medical_condition)
    IN  sample(filtered_meals, min(4, Len(filtered_meals)))

\* generate_weekly_plan: 7 // len(meals) raises ZeroDivisionError on an empty
\* list; otherwise each of the seven days holds one sample of the (repeated)
\* list: day_meals is the set of the samples a day may hold
generate_weekly_plan(meals, user_profile) ==
    IF Len(meals) = 0
    THEN [raised |-> TRUE, day_meals |-> {}]
    ELSE LET pool == IF Len(meals) < 7
                     THEN Times(meals, 7 \div Len(meals) + 1)
                     ELSE meals
         IN  [raised |-> FALSE, day_meals |-> sample(pool, min(4, Len(pool)))]

\* handle_weekly_plan, lines 993-1003: the plan is generated from the
\* filtered meals as they are, and show_weekly_day presents its first day
weekly_plan_day(meals, diet_type, medical_condition) ==
    generate_weekly_plan(filter_meals_by_preferences(meals, diet_type, medical_condition),
                         [diet |-> diet_type, medical |-> medical_condition])

\* show_grocery_list, lines 1138-1145, and order_on_zepto, lines 1602-1609:
\* the meals whose ingredients make the list
listed_meals(meals, diet_type, medical_condition) ==
    Prefix(filtered_or_prefix(meals, diet_type, medical_condition), 4)

Presents(op, meals) ==
    plan' = Some([op |-> op, raised |-> FALSE, meals |-> meals])

PlanRaises(op) ==
    plan' = Some([op |-> op, raised |-> TRUE, meals |-> << >>])

planFrame ==
    << clockVars, convVars, user_rate_limits, ev, admitted, startVars, sessionVars, sp_in, sp_out,
       f_meals, f_diet, f_medical, f_out, f_out2, files, l_state, l_out >>

DailyPlan ==
    /\ \E meals \in selected_meals(f_meals, f_diet, f_medical) :
         Presents("get_meal_plan", meals)
    /\ UNCHANGED planFrame

WeeklyPlan ==
    /\ LET week == weekly_plan_day(f_meals, f_diet, f_medical)
       IN  IF week.raised
           THEN PlanRaises("handle_weekly_plan")
           ELSE \E meals \in week.day_meals : Presents("handle_weekly_plan", meals)
    /\ UNCHANGED planFrame

GroceryList ==
    /\ Presents("show_grocery_list", listed_meals(f_meals, f_diet, f_medical))
    /\ UNCHANGED planFrame

ZeptoOrder ==
    /\ Presents("order_on_zepto", listed_meals(f_meals, f_diet, f_medical))
    /\ UNCHANGED planFrame

\* the meals of the catalogs: one with onion, one with milk
PlanPool ==
    { WithLevel(Meal(<<"a">>, <<s_rice, s_onion>>, 200), s_low),
      WithLevel(Meal(<<"b">>, <<s_rice, s_milk>>, 450), s_High) }

\* the loader returns a list that is not empty
PlanCatalogs == Lists(PlanPool, MaxPlanCatalog) \ { << >> }

InitPlan ==
    /\ StartIdle
    /\ SessionIdle
    /\ ConvIdle
    /\ sp_in = 0 /\ sp_out = None
    /\ f_meals \in PlanCatalogs
    /\ f_diet \in FilterDiets
    /\ f_medical = s_none
    /\ f_out = None /\ f_out2 = None
    /\ CatalogIdle

NextPlan == DailyPlan \/ WeeklyPlan \/ GroceryList \/ ZeptoOrder

SpecPlan == InitPlan /\ [][NextPlan]_vars

----------------------------------------------------------------------------
(* The weekly plan of a session.  context.user_data, a dictionary the bot   *)
(* keeps per user for as long as the process runs, holds "weekly_plan" and  *)
(* "current_day"; context_user_data has an entry for the users it holds a   *)
(* key for.  The loader returns f_meals for the region of every profile.    *)

\* context.user_data of u
session(sessions, u) == IF u \in DOMAIN sessions THEN sessions[u] ELSE EmptyDict

max(a, b) == IF a > b THEN a ELSE b

\* lines 453-459: the entry of one day
day_entry(day, day_meals) ==
    [k \in {"day", "breakfast", "lunch", "dinner", "snack"} |->
        IF k = "day" THEN Some(day)
        ELSE IF k = "breakfast" THEN (IF Len(day_meals) > 0 THEN Some(day_meals[1]) ELSE None)
        ELSE IF k = "lunch" THEN (IF Len(day_meals) > 1 THEN Some(day_meals[2]) ELSE None)
        ELSE IF k = "dinner" THEN (IF Len(day_meals) > 2 THEN Some(day_meals[3]) ELSE None)
        ELSE (IF Len(day_meals) > 3 THEN Some(day_meals[4]) ELSE None)]

\* generate_weekly_plan, lines 450-461: the lists it may return, one sample
\* for each day of range(7)
weekly_plans(meals, user_profile) ==
    { [day \in 1..7 |-> day_entry(day, samples[day])] :
          samples \in [1..7 -> generate_weekly_plan(meals, user_profile).day_meals] }

\* show_weekly_day, lines 1010-1062: what it returns
show_weekly_day(user_data) ==
    LET weekly_plan == Get(user_data, "weekly_plan", << >>)
        current_day == Get(user_data, "current_day", 0)
    IN  IF weekly_plan = << >> \/ current_day >= Len(weekly_plan) THEN END
        ELSE IF current_day < 0 - Len(weekly_plan) THEN "raised"
        ELSE WEEK_PLAN

weekFrame ==
    << clockVars, FIREBASE_AVAILABLE, admitted, inputVars, fb_docs, user_streaks,
       user_rate_limits, keyboards, shopVars >>

\* button "week_plan"
handle_weekly_plan(u) ==
    /\ Dispatched(u)
    /\ \E o \in lookup_user_data(user_data_store, fb_docs, FIREBASE_AVAILABLE, u) :
         /\ user_data_store' = o.store
         /\ IF ~Found(o.ret)
            THEN /\ ItemEvent(u, "handle_weekly_plan", END, None)
                 /\ UNCHANGED context_user_data
            ELSE IF ~HasKeys(o.ret[1], {"state", "diet", "medical"})
            THEN /\ ItemEvent(u, "handle_weekly_plan", "raised", None)
                 /\ UNCHANGED context_user_data
            ELSE LET user_data == o.ret[1]
                     filtered_meals == filter_meals_by_preferences(
                                           f_meals, user_data["diet"], user_data["medical"])
                 IN  IF generate_weekly_plan(filtered_meals, user_data).raised
                     THEN /\ ItemEvent(u, "handle_weekly_plan", "raised", None)
                          /\ UNCHANGED context_user_data
                     ELSE \E weekly_plan \in weekly_plans(filtered_meals, user_data) :
                            LET new == DictSet(DictSet(session(context_user_data, u),
                                                       "weekly_plan", weekly_plan),
                                               "current_day", 0)
                            IN  /\ context_user_data' = DictSet(context_user_data, u, new)
                                /\ ItemEvent(u, "handle_weekly_plan",
                                             show_weekly_day(new), None)
    /\ UNCHANGED weekFrame

\* faulty variant of week_next: the index is not capped
week_next_uncapped(u) ==
    /\ Dispatched(u)
    /\ LET old == session(context_user_data, u)
           new == DictSet(old, "current_day", Get(old, "current_day", 0) + 1)
       IN  /\ context_user_data' = DictSet(context_user_data, u, new)
           /\ ItemEvent(u, "week_next", show_weekly_day(new), None)
    /\ UNCHANGED << weekFrame, user_data_store >>

\* button "week_prev", lines 1897-1899
week_prev(u) ==
    /\ Dispatched(u)
    /\ LET old == session(context_user_data, u)
           new == DictSet(old, "current_day", max(0, Get(old, "current_day", 0) - 1))
       IN  /\ context_user_data' = DictSet(context_user_data, u, new)
           /\ ItemEvent(u, "week_prev", show_weekly_day(new), None)
    /\ UNCHANGED << weekFrame, user_data_store >>

\* button "week_next", lines 1900-1903
week_next(u) ==
    /\ Dispatched(u)
    /\ LET old == session(context_user_data, u)
           new == DictSet(old, "current_day",
                          min(Len(Get(old, "weekly_plan", << >>)) - 1,
                              Get(old, "current_day", 0) + 1))
       IN  /\ context_user_data' = DictSet(context_user_data, u, new)
           /\ ItemEvent(u, "week_next", show_weekly_day(new), None)
    /\ UNCHANGED << weekFrame, user_data_store >>

----------------------------------------------------------------------------
(* SpecWeek: a user with a profile asks for weekly plans and moves through  *)
(* the days, by the buttons of any message still in the chat; the profile   *)
(* in the cache and the one in the durable store may differ in the diet     *)
(* (a profile write that failed)                                            *)

WeekDiets == { s_jain, s_vegan }

WeekProfile(diet) == [PriorProfile EXCEPT !["diet"] = diet]

\* the catalogs of the region: a meal with onion and one with milk, or the
\* meal with milk alone
WeekCatalogs ==
    { << WithLevel(Meal(<<"a">>, <<s_rice, s_onion>>, 200), s_low),
         WithLevel(Meal(<<"b">>, <<s_rice, s_milk>>, 450), s_High) >>,
      << WithLevel(Meal(<<"b">>, <<s_rice, s_milk>>, 450), s_High) >> }

InitWeek ==
    /\ now = 0
    /\ ticks = 0
    /\ FIREBASE_AVAILABLE \in BOOLEAN
    /\ \E diet \in WeekDiets :
         fb_docs \in (IF FIREBASE_AVAILABLE
                      THEN { [u \in Users |-> [profile |-> WeekProfile(diet),
                                               streak_data |-> None]] }
                      ELSE { EmptyDict })
    /\ conv = [u \in Users |-> MEAL_PLAN]
    /\ \E diet \in WeekDiets : user_data_store = [u \in Users |-> WeekProfile(diet)]
    /\ user_streaks = EmptyDict
    /\ user_rate_limits = EmptyDict
    /\ keyboards = [u \in Users |-> << "kb_menu" >>]
    /\ ev = NoEvent
    /\ admitted = [u \in Users |-> << >>]
    /\ StartIdle
    /\ SessionIdle
    /\ sp_in = 0 /\ sp_out = None
    /\ f_meals \in WeekCatalogs
    /\ f_diet = << >> /\ f_medical = << >>
    /\ f_out = None /\ f_out2 = None
    /\ CatalogIdle

NextWeek ==
    \/ \E u \in Users : handle_weekly_plan(u)
    \/ \E u \in Users : week_prev(u)
    \/ \E u \in Users : week_next(u)
    \/ \E u \in Users : cancel(u)
    \/ \E u \in Users : start(u)

SpecWeek == InitWeek /\ [][NextWeek]_vars

----------------------------------------------------------------------------
(* Properties of the streak engine: C1 to C3 under SpecStreak, C4 and C5    *)
(* under Spec                                                               *)

\* this step is a handler that called update_user_streak for u; ev'.streak
\* holds what the call returned
UpdatedFor(u) == now' = now /\ ev'.user = u /\ ev'.streak # None

HasStreak(u) == u \in DOMAIN user_streaks
LastCompleted(u) == user_streaks[u].last_completed_date

\* C1: a streak update on the day the record was last completed changes
\* neither the streak count, nor the points total, nor the last-completion
\* date, in the cache or in the durable store, and returns the existing
\* record as it is.
C1_SameDayNoOp ==
    [][ \A u \in Users :
          (UpdatedFor(u) /\ HasStreak(u) /\ LastCompleted(u) = Some(today))
          => /\ user_streaks' = user_streaks
             /\ fb_docs' = fb_docs
             /\ ev'.streak = Some(user_streaks[u]) ]_vars

\* a second update on the day of a completion
C1_Witness ==
    \E u \in Users :
        /\ ev.op = "update_user_streak" /\ ev.user = u /\ ev.ret = "unchanged"
        /\ HasStreak(u) /\ LastCompleted(u) = Some(today)
        /\ user_streaks[u].streak_count >= 1
        /\ ev.streak = Some(user_streaks[u])

\* C2: a streak update exactly one day after the last completion adds one
\* to the streak count, raises the points total, and sets the
\* last-completion date to today.
C2_NextDayContinues ==
    [][ \A u \in Users :
          (UpdatedFor(u) /\ HasStreak(u) /\ LastCompleted(u) = Some(today - 1))
          => /\ user_streaks'[u].streak_count = user_streaks[u].streak_count + 1
             /\ user_streaks'[u].streak_points_total > user_streaks[u].streak_points_total
             /\ user_streaks'[u].last_completed_date = Some(today) ]_vars

\* a second day in a row
C2_Witness ==
    \E u \in Users :
        /\ ev.user = u /\ ev.streak # None
        /\ today = 1
        /\ HasStreak(u) /\ LastCompleted(u) = Some(1)
        /\ user_streaks[u].streak_count = 2

\* the record update_user_streak starts from has no earlier completion, or
\* one more than a day ago
FreshOrBroken(u) ==
    IF ~HasStreak(u) THEN TRUE
    ELSE IF LastCompleted(u) = None THEN TRUE
    ELSE today - LastCompleted(u)[1] > 1

\* C3: a streak update more than one day after the last completion, or with
\* no earlier completion on record, leaves the streak count at 1.
C3_GapOrFirstStartsAtOne ==
    [][ \A u \in Users :
          (UpdatedFor(u) /\ FreshOrBroken(u))
          => user_streaks'[u].streak_count = 1 ]_vars

\* a first completion, a day missed, and a completion again: two awards of
\* the first tier
C3_Witness ==
    \E u \in Users :
        /\ ev.user = u /\ ev.streak # None
        /\ today = 2
        /\ HasStreak(u) /\ LastCompleted(u) = Some(2)
        /\ user_streaks[u].streak_count = 1
        /\ user_streaks[u].streak_points_total >= 6

\* C4: whatever the user does (start, the profile steps, completion, meal
\* plan requests, start over, cancel) and whichever days pass, the user's
\* points total never goes down, the streak record is never dropped, and
\* the streak count is never negative.
C4_TotalNeverDecreases ==
    /\ [](\A u \in DOMAIN user_streaks : user_streaks[u].streak_count >= 0)
    /\ [][ \A u \in DOMAIN user_streaks :
             /\ u \in DOMAIN user_streaks'
             /\ user_streaks'[u].streak_points_total
                    >= user_streaks[u].streak_points_total ]_vars

\* points earned on two different days, and the conversation cancelled
\* afterwards
C4_Witness ==
    \E u \in DOMAIN user_streaks :
        /\ ev.op = "cancel" /\ ev.user = u
        /\ today > 0
        /\ LastCompleted(u) = Some(today)
        /\ user_streaks[u].streak_points_total >= 6
        /\ user_streaks[u].streak_count >= 1

\* the user has no streak yet
NewUser(u) == IF HasStreak(u) THEN user_streaks[u] = default_streak ELSE TRUE

\* C5: when a user without a streak completes the profile, the conversation
\* is in state PROFILE, the profile is in the store, the streak count is 1
\* and the points total is between 2 and 5; a meal plan asked for later the
\* same day leaves that streak as it is.
C5_NewUserEndToEnd ==
    [][ \A u \in Users :
          /\ ( /\ ev'.op = "activity_selection" /\ ev'.ret = PROFILE
               /\ UpdatedFor(u) /\ NewUser(u) )
             => /\ conv'[u] = PROFILE
                /\ u \in DOMAIN user_data_store'
                /\ "activity" \in DOMAIN user_data_store'[u]
                /\ DOMAIN user_data_store[u] \subseteq DOMAIN user_data_store'[u]
                /\ user_streaks'[u].streak_count = 1
                /\ user_streaks'[u].streak_points_total \in 2..5
                /\ user_streaks'[u].last_completed_date = Some(today)
          /\ ( /\ ev'.op = "get_meal_plan" /\ UpdatedFor(u)
               /\ HasStreak(u) /\ LastCompleted(u) = Some(today)
               /\ user_streaks[u].streak_count = 1 )
             => user_streaks'[u] = user_streaks[u] ]_vars

\* the whole path: /start, every field, completion, then a meal plan
C5_Witness ==
    \E u \in Users :
        /\ ev.op = "get_meal_plan" /\ ev.user = u /\ ev.ret = MEAL_PLAN
        /\ conv[u] = MEAL_PLAN
        /\ ticks = 0
        /\ u \in DOMAIN user_data_store /\ DOMAIN user_data_store[u] = ProfileFields
        /\ HasStreak(u)
        /\ user_streaks[u].streak_count = 1
        /\ user_streaks[u].streak_points_total \in 2..5
        /\ ev.streak = Some(user_streaks[u])

----------------------------------------------------------------------------
(* Properties of calculate_streak_points, under SpecPoints *)

MinAward(n) ==
    CHOOSE p \in calculate_streak_points(n) :
        \A q \in calculate_streak_points(n) : p <= q
MaxAward(n) ==
    CHOOSE p \in calculate_streak_points(n) :
        \A q \in calculate_streak_points(n) : p >= q

\* p = floor(b * 1.5^k)
IsFloorOfGrowth(p, b, k) ==
    /\ p * Pow(2, k) <= b * Pow(3, k)
    /\ b * Pow(3, k) < (p + 1) * Pow(2, k)

\* C6: the award for streak count n is in [2,5] for n = 1, in [4,8] for
\* n = 2, in [8,15] for n = 3, and floor(b * 1.5^(n-3)) for some b in [8,15]
\* for n >= 4; the least and the greatest possible award do not decrease
\* when n grows.
C6_TieredPoints ==
    sp_out # None =>
        LET n == sp_in
            p == sp_out[1]
        IN  /\ (n = 1) => p \in 2..5
            /\ (n = 2) => p \in 4..8
            /\ (n = 3) => p \in 8..15
            /\ (n >= 4) => \E b \in 8..15 : IsFloorOfGrowth(p, b, n - 3)
            /\ (n >= 1) => /\ MinAward(n) <= MinAward(n + 1)
                           /\ MaxAward(n) <= MaxAward(n + 1)
                           /\ MinAward(n) <= p /\ p <= MaxAward(n)

\* 8 * 1.5^2 = 18 for a streak of five days
C6_Witness == sp_in = 5 /\ sp_out = Some(18)

----------------------------------------------------------------------------
(* Properties of check_rate_limit, under SpecRate *)

AdmittedTimes(u) == { admitted[u][i] : i \in DOMAIN admitted[u] }

\* how many operations of u were admitted at a time t with lo <= t < hi
AdmittedIn(u, lo, hi) ==
    Cardinality({ i \in DOMAIN admitted[u] : lo <= admitted[u][i] /\ admitted[u][i] < hi })

\* C7 as stated: no span of RATE_LIMIT_WINDOW seconds holds more than
\* MAX_REQUESTS_PER_WINDOW admitted operations of one user.
C7_AtMostCapPerSpan ==
    \A u \in Users : \A t \in AdmittedTimes(u) :
        AdmittedIn(u, t, t + RATE_LIMIT_WINDOW) <= MAX_REQUESTS_PER_WINDOW

\* C7: between two resets of a user's window at most MAX_REQUESTS_PER_WINDOW
\* operations are admitted, the log holding exactly the ones admitted since
\* the last reset; a reset empties the log, so a span of RATE_LIMIT_WINDOW
\* seconds holds at most twice MAX_REQUESTS_PER_WINDOW admitted operations.
C7_AtMostCapPerWindow ==
    \A u \in Users :
        /\ u \in DOMAIN user_rate_limits =>
              /\ Len(user_rate_limits[u].requests) <= MAX_REQUESTS_PER_WINDOW
              /\ user_rate_limits[u].requests
                    = SelectSeq(admitted[u],
                                LAMBDA t : t >= user_rate_limits[u].last_reset)
        /\ \A t \in AdmittedTimes(u) :
              AdmittedIn(u, t, t + RATE_LIMIT_WINDOW) <= 2 * MAX_REQUESTS_PER_WINDOW

\* a full window that was reset while the requests of the last
\* RATE_LIMIT_WINDOW seconds were still in the log
C7_Witness ==
    \E u \in DOMAIN user_rate_limits :
        /\ Len(user_rate_limits[u].requests) = MAX_REQUESTS_PER_WINDOW
        /\ \E t \in AdmittedTimes(u) :
              AdmittedIn(u, t, t + RATE_LIMIT_WINDOW) > MAX_REQUESTS_PER_WINDOW

\* the window of u is open: it was started at most RATE_LIMIT_WINDOW ago
InWindow(u) ==
    IF u \in DOMAIN user_rate_limits
    THEN now - user_rate_limits[u].last_reset <= RATE_LIMIT_WINDOW
    ELSE FALSE

\* C8: inside one window a call is admitted while fewer than
\* MAX_REQUESTS_PER_WINDOW calls were admitted in it, so the first 30 are
\* admitted and the 31st is rejected; a call made after the window has
\* elapsed is admitted.
C8_CapThenReopens ==
    [][ \A u \in Users :
          RateCheck(u) =>
              IF InWindow(u)
              THEN ev'.ret = (IF Len(user_rate_limits[u].requests) < MAX_REQUESTS_PER_WINDOW
                              THEN "True" ELSE "False")
              ELSE ev'.ret = "True" ]_vars

\* 30 calls admitted, the window elapsed, and a call admitted again
C8_Witness ==
    \E u \in Users :
        /\ ev.op = "check_rate_limit" /\ ev.user = u /\ ev.ret = "True"
        /\ Len(admitted[u]) = 31
        /\ admitted[u][30] = 0
        /\ admitted[u][31] > 60

\* C9: a rejected call leaves the rate windows as they were: the rejected
\* request is not logged.
C9_RejectionRecordsNothing ==
    [][ \A u \in Users :
          (RateCheck(u) /\ ev'.ret = "False")
          => /\ user_rate_limits' = user_rate_limits
             /\ admitted' = admitted ]_vars

\* a call rejected on a full window
C9_Witness ==
    \E u \in DOMAIN user_rate_limits :
        /\ ev.op = "check_rate_limit" /\ ev.user = u /\ ev.ret = "False"
        /\ Len(user_rate_limits[u].requests) = MAX_REQUESTS_PER_WINDOW

----------------------------------------------------------------------------
(* Properties of filter_meals_by_preferences, under SpecFilter *)

\* C10: filtering the output of the filter again, with the same diet and
\* medical condition, gives the same list.
C10_FilterIdempotent ==
    f_out2 # None => f_out2 = f_out

\* a catalog of which the filter removed two meals in a row and kept one
C10_Witness ==
    /\ f_out2 # None
    /\ Len(f_meals) = 3
    /\ Len(f_out[1]) = 1
    /\ f_out[1][1] = f_meals[3]

\* a meal breaks a rule of the diet or of the medical condition, every
\* comparison made without regard to letter case
ingredients_in(meal, items) ==
    \E i \in 1..Len(meal["Ingredients"]) : Lower(meal["Ingredients"][i]) \in items

breaks_a_rule(meal, diet_type, medical_condition) ==
    \/ Lower(diet_type) = s_jain /\ ingredients_in(meal, {s_onion, s_garlic, s_potato})
    \/ Lower(diet_type) = s_vegan /\ ingredients_in(meal, {s_milk, s_ghee, s_curd})
    \/ /\ Lower(medical_condition) = s_diabetes
       /\ Lower(Get(meal, "Calorie Level", << >>)) \in {s_high, s_very_high}
    \/ /\ Lower(medical_condition) = s_thyroid
       /\ \E i \in 1..Len(meal["Ingredients"]) :
             Contains(Lower(meal["Ingredients"][i]), s_coconut)

\* the catalog holds meals as the loader returns them
IsCatalog(meals) ==
    \A i \in 1..Len(meals) : {"Food Item", "Ingredients"} \subseteq DOMAIN meals[i]

\* C11 as stated: the filter returns, in catalog order, exactly the meals
\* that break no rule of the diet and of the medical condition, and every
\* comparison (ingredient names, diet, medical condition, calorie level)
\* ignores letter case.
C11_FilterCaseInsensitive ==
    (f_out # None /\ IsCatalog(f_meals))
    => f_out[1] = SelectSeq(f_meals,
                            LAMBDA meal : ~breaks_a_rule(meal, f_diet, f_medical))

----------------------------------------------------------------------------
(* Properties of the handlers that present meals, under SpecPlan *)

\* C12 as stated: each of the four handlers completes and presents at least
\* one meal, and when fewer than four meals of the catalog survive the
\* filter, every meal it presents is one of the first four meals of the
\* unfiltered catalog.
C12_EveryCallerFallsBack ==
    plan # None =>
        /\ ~plan[1].raised
        /\ plan[1].meals # << >>
        /\ Len(filter_meals_by_preferences(f_meals, f_diet, f_medical)) < 4
           => \A i \in 1..Len(plan[1].meals) :
                 InList(plan[1].meals[i], Prefix(f_meals, 4))

----------------------------------------------------------------------------
(* Properties of load_meal_data_from_json, under SpecLoader *)

\* the file of the region
Missing == filename_of(l_state) \notin DOMAIN files
Source == files[filename_of(l_state)]

\* the candidates of a document: the flat records and the entries of the
\* grouped records, in the order of the document
RECURSIVE Candidates(_)
Candidates(items) ==
    IF items = << >> THEN << >>
    ELSE LET item == Head(items)
         IN  ( IF item.type # "dict" THEN << >>
               ELSE IF "Items" \in DOMAIN item.dict
                    THEN IF item.dict["Items"].type = "list"
                         THEN item.dict["Items"].list
                         ELSE << >>
                    ELSE IF "Food Item" \in DOMAIN item.dict THEN << item >>
                    ELSE << >> )
             \o Candidates(Tail(items))

\* the candidate is a record that meets the invariants of a meal
IsValidMeal(c) ==
    IF c.type = "dict" THEN validate_meal_structure(c).ret ELSE FALSE

\* the valid meals of the region's file; none when there is no document
ValidMeals ==
    IF Missing THEN << >>
    ELSE IF ~Source.parsed THEN << >>
    ELSE IF Source.data.type # "list" THEN << >>
    ELSE SelectSeq(Candidates(Source.data.list), IsValidMeal)

\* C13: load_meal_data_from_json returns without raising, and what it
\* returns is a list of at least one meal, whatever the region and whatever
\* the file holds.
C13_LoaderTotal ==
    l_out # None =>
        /\ l_out[1].raised = "none"
        /\ Len(l_out[1].ret) >= 1

\* a document with an entry that makes the validation loop raise
C13_Witness ==
    /\ l_out # None
    /\ ~Missing
    /\ load_try(files, l_state).raised = "Exception"
    /\ Len(l_out[1].ret) = 4

\* C14: when the file of the region is missing, cannot be parsed, is not a
\* list, or holds no valid meal, the loader returns the builtin list, which
\* has four meals, each of them passing validate_meal_structure.
C14_FallbackWhenNothingValid ==
    (l_out # None /\ ValidMeals = << >>)
    => /\ l_out[1].ret = get_fallback_meal_data(l_state)
       /\ Len(l_out[1].ret) = 4
       /\ \A i \in 1..Len(l_out[1].ret) :
             /\ ~validate_meal_structure(l_out[1].ret[i]).raised
             /\ validate_meal_structure(l_out[1].ret[i]).ret

\* a document that parses and holds candidates, none of them valid
C14_Witness ==
    /\ l_out # None
    /\ ~Missing
    /\ Source.parsed
    /\ Source.data.type = "list"
    /\ Candidates(Source.data.list) # << >>
    /\ ValidMeals = << >>
    /\ l_out[1].ret = get_fallback_meal_data(l_state)

\* C15 as stated: when the file parses and holds at least one valid meal,
\* the loader returns exactly the valid candidates in the order of the
\* document, whatever the other entries are.
C15_InvalidEntriesDroppedAlone ==
    (l_out # None /\ ValidMeals # << >>)
    => l_out[1].ret = ValidMeals

----------------------------------------------------------------------------
(* Properties of the profile store, under SpecStore *)

Cached(u) == u \in DOMAIN user_data_store
InDurable(u) ==
    IF u \in DOMAIN fb_docs THEN Truthy(fb_docs[u].profile) ELSE FALSE

\* C16: get_user_profile returns the cached profile without querying the
\* durable store when the cache has an entry; otherwise it queries the
\* durable store when there is one, and on a hit caches the profile and
\* returns it; when neither tier has a profile, or the query fails, it
\* returns None and leaves the cache as it was.
C16_CacheAsideRead ==
    [][ \A u \in StoreUsers :
          GetProfile(u) =>
              IF Cached(u)
              THEN /\ ev'.query = "none"
                   /\ ev'.profile = Some(user_data_store[u])
                   /\ user_data_store' = user_data_store
              ELSE IF ~FIREBASE_AVAILABLE
              THEN /\ ev'.query = "none"
                   /\ ev'.profile = None
                   /\ user_data_store' = user_data_store
              ELSE IF ev'.query = "hit"
              THEN /\ InDurable(u)
                   /\ ev'.profile = Some(fb_docs[u].profile)
                   /\ user_data_store' = DictSet(user_data_store, u, fb_docs[u].profile)
              ELSE /\ ev'.query = "failed" \/ (ev'.query = "miss" /\ ~InDurable(u))
                   /\ ev'.profile = None
                   /\ user_data_store' = user_data_store ]_vars

\* a profile an earlier save left in the durable store, read after the
\* cache entry was deleted, and cached again
C16_Witness ==
    \E u \in StoreUsers :
        /\ ev.op = "get_user_profile" /\ ev.user = u /\ ev.query = "hit"
        /\ ev.profile = Some([PriorProfile EXCEPT !["diet"] = s_vegan])
        /\ Cached(u) /\ Some(user_data_store[u]) = ev.profile

\* C17: save_user_profile leaves the written profile in the cache, whether
\* the durable upsert succeeds, fails or is unavailable; it returns True
\* exactly when the upsert was made; and the get_user_profile that follows
\* returns the written profile.
C17_WriteAlwaysCaches ==
    [][ \A u \in StoreUsers :
          /\ \A profile_data \in StoreProfiles :
                SaveProfile(u, profile_data) =>
                    /\ Cached(u)' /\ user_data_store'[u] = profile_data
                    /\ IF ev'.ret = "True"
                       THEN /\ FIREBASE_AVAILABLE
                            /\ InDurable(u)' /\ fb_docs'[u].profile = profile_data
                       ELSE fb_docs' = fb_docs
          /\ (ev.op = "save_user_profile" /\ ev.user = u /\ GetProfile(u))
                => ev'.profile = ev.profile ]_vars

\* the durable store refused a profile, the cache holds it, and the read
\* that followed returned it
C17_Witness ==
    \E u \in StoreUsers :
        /\ ev.op = "get_user_profile" /\ ev.user = u
        /\ FIREBASE_AVAILABLE
        /\ ev.profile = Some([PriorProfile EXCEPT !["diet"] = s_vegan])
        /\ ~InDurable(u)

----------------------------------------------------------------------------
(* Properties of the conversation and the profile it keeps, under Spec *)

IsComplete(profile) == ProfileFields \subseteq DOMAIN profile

\* a complete profile of u is in the cache or in the durable store
HasCompleteProfile(u) ==
    \/ IF Cached(u) THEN IsComplete(user_data_store[u]) ELSE FALSE
    \/ IF InDurable(u) THEN IsComplete(fb_docs[u].profile) ELSE FALSE

\* C18: on each entry path, /start and the button back to the menu, the
\* conversation enters MEAL_PLAN exactly when a complete profile, one with all
\* seven fields, exists for the user, and NAME otherwise; a draft with fewer
\* fields is not taken for a profile.
C18_EntryByCompleteProfile ==
    [][ \A u \in Users :
          (start(u) \/ \E msg \in DOMAIN keyboards[u] : go_back(u, msg)) =>
              conv'[u] = (IF HasCompleteProfile(u) THEN MEAL_PLAN ELSE NAME) ]_vars

\* C19: the profile activity_selection hands to save_user_profile holds all
\* seven fields, whatever events came before, Start Over and Update Profile
\* among them.
C19_SavedProfileComplete ==
    ev.op = "activity_selection" =>
        /\ ev.user \in DOMAIN user_data_store
        /\ IsComplete(user_data_store[ev.user])

\* C20: /cancel removes neither a complete profile of the user nor the
\* streak record: what was stored before is stored after, in memory-only
\* mode too, and in the middle of Update Profile too.
C20_CancelKeepsProfile ==
    [][ \A u \in Users :
          cancel(u) =>
              /\ HasCompleteProfile(u) => HasCompleteProfile(u)'
              /\ user_streaks' = user_streaks ]_vars

\* C21: /cancel, in whatever conversation state it arrives, ends the
\* conversation of the user and leaves no cache entry, so no draft; the
\* /start that follows finds no draft and begins again at NAME with an empty
\* one.
C21_CancelDiscardsDraft ==
    [][ \A u \in Users :
          /\ cancel(u) => (conv'[u] = END /\ ~Cached(u)')
          /\ (ev.op = "cancel" /\ ev.user = u /\ start(u))
                => (conv'[u] = NAME /\ user_data_store'[u] = EmptyDict) ]_vars

\* /cancel arrived after the gender was chosen, with name, age and gender in
\* the draft: the state keyboard is still in the chat and the draft is gone
C21_Witness ==
    \E u \in Users :
        /\ ev.op = "cancel" /\ ev.user = u
        /\ conv[u] = END /\ ~Cached(u)
        /\ keyboards[u] # << >>
        /\ keyboards[u][Len(keyboards[u])] = "kb_state"

----------------------------------------------------------------------------
(* Properties of the completion transition, under SpecCompletion *)

DocProfile(docs, u) == IF u \in DOMAIN docs THEN Some(docs[u].profile) ELSE None
DocStreak(docs, u) == IF u \in DOMAIN docs THEN docs[u].streak_data ELSE None
CachedStreak(u) == IF u \in DOMAIN user_streaks THEN user_streaks[u] ELSE default_streak

\* this step is activity_selection run for u
Completion(u) == now' = now /\ ev'.op = "activity_selection" /\ ev'.user = u

\* the draft of u with the activity merged into it
Merged(u, activity) ==
    DictSet(IF Cached(u) THEN user_data_store[u] ELSE EmptyDict, "activity", activity)

\* C22: on the activity choice in ACTIVITY_LEVEL the handler merges the
\* activity into the draft, writes the merged profile to the profile store,
\* updates the streak, and moves the conversation to PROFILE; and no other
\* step writes a profile to the durable store.
C22_CompletionInOrder ==
    [][ \A u \in Users :
          /\ (conv[u] = ACTIVITY_LEVEL /\ Completion(u)) =>
                /\ \E activity \in ActivityChoices :
                      /\ user_data_store'[u] = Merged(u, activity)
                      /\ ev'.saved => DocProfile(fb_docs', u) = Some(Merged(u, activity))
                /\ u \in DOMAIN user_streaks'
                /\ user_streaks'[u] \in UpdatedStreak(CachedStreak(u), today)
                /\ conv'[u] = PROFILE
          /\ DocProfile(fb_docs', u) # DocProfile(fb_docs, u) => Completion(u) ]_vars

\* C23: a failure of the durable store during the completion transition
\* changes nothing but the documents and the line of the message that tells
\* where the profile was saved: the cache holds the merged profile and the
\* updated streak, the conversation moves to PROFILE exactly when the draft
\* holds the fields the message shows, as it does without a failure, and a
\* write that failed is not made a second time.
C23_StoreFailureSwallowed ==
    [][ \A u \in Users :
          Completion(u) =>
              /\ \E activity \in ActivityChoices :
                    /\ user_data_store'[u] = Merged(u, activity)
                    /\ IF ev'.saved
                       THEN FIREBASE_AVAILABLE
                            /\ DocProfile(fb_docs', u) = Some(Merged(u, activity))
                       ELSE DocProfile(fb_docs', u) = DocProfile(fb_docs, u)
              /\ u \in DOMAIN user_streaks'
              /\ user_streaks'[u] \in UpdatedStreak(CachedStreak(u), today)
              /\ ev'.streak = Some(user_streaks'[u])
              /\ DocStreak(fb_docs', u) \in
                    { IF ev'.saved THEN None ELSE DocStreak(fb_docs, u),
                      Some(user_streaks'[u]) }
              /\ conv'[u] = IF HasKeys(user_data_store'[u], CompletionFields)
                            THEN PROFILE ELSE conv[u] ]_vars

\* the durable store took neither the profile nor the streak of a new user;
\* the conversation is at PROFILE, the cache holds the seven fields and the
\* streak of today
C23_Witness ==
    \E u \in Users :
        /\ FIREBASE_AVAILABLE /\ fb_docs = EmptyDict
        /\ ev.op = "activity_selection" /\ ev.user = u /\ ~ev.saved
        /\ conv[u] = PROFILE
        /\ Cached(u) /\ IsComplete(user_data_store[u])
        /\ u \in DOMAIN user_streaks
        /\ user_streaks[u].last_completed_date = Some(today)
        /\ user_streaks[u].streak_count = 1

----------------------------------------------------------------------------
(* Properties of the questions answered by typing, under SpecText *)

Draft(u) == IF Cached(u) THEN user_data_store[u] ELSE EmptyDict

\* the step leaves the conversation of u in its state with the draft as it
\* was, and the handler returned
Reprompted(u) ==
    /\ conv'[u] = conv[u]
    /\ user_data_store' = user_data_store
    /\ ev'.ret = conv[u]

\* C24: a text that fails validation in NAME, AGE or MEDICAL_CONDITION leaves
\* the conversation in the same state and the draft unchanged, and the
\* handler returns that state; it does not raise.
C24_RejectedTextReprompts ==
    [][ \A u \in Users, text \in Texts :
          /\ (handle_name(u, text) /\ accepted_name(text) = None) => Reprompted(u)
          /\ (handle_age(u, text) /\ accepted_age(text) = None) => Reprompted(u)
          /\ (handle_custom_medical(u, text) /\ accepted_medical(text) = None)
                => Reprompted(u) ]_vars

\* an age was refused after the name was stored: the conversation is still
\* at AGE and the draft holds the name alone
C24_Witness ==
    \E u \in Users :
        /\ ev.op = "handle_age" /\ ev.ret = AGE /\ conv[u] = AGE
        /\ DOMAIN Draft(u) = {"name"}

\* the decimal digits of a text, in order, and the number they spell
DecimalDigits(text) == SelectSeq(text, LAMBDA c : c \in Digits)
NumberTyped(text) == int(DecimalDigits(text))

\* the step stores value as field of the draft of u and touches nothing else
Stores(u, field, value) == user_data_store' = put_field(user_data_store, u, field, value)

\* C26: the age typed is read by dropping every character that is not a
\* digit and reading the digits left as an integer; it is stored, and the
\* conversation moves to GENDER, only when that integer is between 1 and 120;
\* an integer outside is refused, not replaced by a bound; every age a draft
\* holds is between 1 and 120.
C26_AgeParsedAndBounded ==
    [][ \A u \in Users :
          /\ \A text \in Texts :
                handle_age(u, text) =>
                    /\ IF conv'[u] = GENDER
                       THEN /\ DecimalDigits(text) # << >>
                            /\ NumberTyped(text) \in 1..120
                            /\ Stores(u, "age", NumberTyped(text))
                       ELSE Reprompted(u)
                    /\ (\A i \in 1..Len(text) : text[i] # "²")
                          => (conv'[u] = GENDER <=>
                                (DecimalDigits(text) # << >> /\ NumberTyped(text) \in 1..120))
          /\ "age" \in DOMAIN Draft(u)' => Draft(u)'["age"] \in 1..120 ]_vars

\* the age 120 was typed and stored
C26_Witness ==
    \E u \in Users :
        /\ ev.op = "handle_age" /\ ev.ret = GENDER /\ conv[u] = GENDER
        /\ Draft(u)["age"] = 120

AllowedInName(c) ==
    \/ c \in UpperLetters \cup LowerLetters \cup Digits \cup {"²"}
    \/ c = " "
    \/ c \in {".", "-", "'"}

\* the text with the characters outside the allow-list dropped, trimmed
NameTyped(text) == strip(SelectSeq(text, AllowedInName))

\* C27: the name a draft holds is the sanitized input: every character of it
\* is alphanumeric, whitespace, or one of . - ', and it has 2 to 50
\* characters; a text whose sanitized form has fewer than 2 or more than 50
\* characters is refused and the conversation stays at NAME.
C27_NameSanitized ==
    [][ \A u \in Users :
          /\ \A text \in Texts :
                handle_name(u, text) =>
                    IF Len(NameTyped(text)) \in 2..50
                    THEN conv'[u] = AGE /\ Stores(u, "name", NameTyped(text))
                    ELSE Reprompted(u)
          /\ "name" \in DOMAIN Draft(u)' =>
                LET name == Draft(u)'["name"]
                IN  /\ Len(name) \in 2..50
                    /\ \A i \in 1..Len(name) : AllowedInName(name[i]) ]_vars

\* a name of 50 characters was stored
C27_Witness ==
    \E u \in Users :
        /\ ev.op = "handle_name" /\ ev.ret = AGE /\ conv[u] = AGE
        /\ Len(Draft(u)["name"]) = 50

AllowedInMedical(c) ==
    \/ c \in UpperLetters \cup LowerLetters \cup Digits \cup {"²"}
    \/ c = " "
    \/ c \in {".", ",", "(", ")", "-"}

MedicalTyped(text) == strip(SelectSeq(text, AllowedInMedical))

\* C28: choosing "other" on the medical keyboard keeps the conversation at
\* MEDICAL_CONDITION and writes no field; the text typed next is stored as
\* the medical field, and the conversation moves to ACTIVITY_LEVEL, only when
\* its sanitized form has at least 3 characters and the trimmed text has at
\* most 200; otherwise it is refused.
C28_OtherThenFreeText ==
    [][ \A u \in Users :
          /\ (\E msg \in DOMAIN keyboards[u] : medical_selection(u, msg, s_other))
                => (conv'[u] = MEDICAL_CONDITION /\ user_data_store' = user_data_store)
          /\ \A text \in Texts :
                (ev.op = "medical_selection" /\ ev.user = u /\ handle_custom_medical(u, text))
                    => IF Len(MedicalTyped(text)) >= 3 /\ Len(strip(text)) <= 200
                       THEN /\ conv'[u] = ACTIVITY_LEVEL
                            /\ Stores(u, "medical", MedicalTyped(text))
                       ELSE Reprompted(u) ]_vars

\* "other" was chosen, which took the medical keyboard away, and a text of
\* 200 characters was typed and stored
C28_Witness ==
    \E u \in Users :
        /\ ev.op = "handle_custom_medical" /\ ev.ret = ACTIVITY_LEVEL
        /\ keyboards[u] = << "kb_activity" >>
        /\ Len(Draft(u)["medical"]) = 200

----------------------------------------------------------------------------
(* Properties of the events a conversation state accepts, under Spec *)

TextHandlers == {"handle_name", "handle_age", "handle_custom_medical"}
ButtonHandlers ==
    {"start_profile_creation", "gender_selection", "state_selection", "diet_selection",
     "medical_selection", "activity_selection", "get_meal_plan", "show_user_profile",
     "show_streak_help", "go_back", "start_over"}

\* the last thing u did in MEDICAL_CONDITION was to choose "other", or to
\* type a text that was refused after that
OtherChosen(u) ==
    /\ ev.user = u /\ ev.ret = MEDICAL_CONDITION
    /\ ev.op \in {"medical_selection", "handle_custom_medical"}

\* the state of u takes typed text, not buttons
TakesText(u) ==
    \/ conv[u] \in {NAME, AGE}
    \/ conv[u] = MEDICAL_CONDITION /\ OtherChosen(u)

\* C25: each conversation state accepts one kind of event and not the other:
\* typed text is handled only in NAME, in AGE, and in MEDICAL_CONDITION after
\* "other" was chosen, and a button is handled only in the other states.
C25_OneEventKindPerState ==
    [][ \A u \in Users :
          (now' = now /\ ev'.user = u) =>
              /\ ev'.op \in TextHandlers => TakesText(u)
              /\ ev'.op \in ButtonHandlers => ~TakesText(u) ]_vars

----------------------------------------------------------------------------
(* Properties of the streak engine after a restart, under SpecRestart *)

\* C29: update_user_streak loads the record it continues from by
\* cache-aside: when the cache holds no record of the user and the durable
\* store holds one, the record returned is the durable record updated for
\* today (a durable streak of 5 completed yesterday becomes 6), not the zero
\* default updated for today.
C29_UpdateContinuesDurableStreak ==
    [][ \A u \in Users :
          (UpdateStreak(u) /\ u \notin DOMAIN user_streaks /\ DocStreak(fb_docs, u) # None)
              => ev'.streak[1] \in UpdatedStreak(DocStreak(fb_docs, u)[1], today) ]_vars

----------------------------------------------------------------------------
(* Properties of the start of the process, under SpecStartup *)

\* C30: the process terminates at startup only when the token of the chat
\* transport is missing, and then with a status other than zero, before it
\* serves; a missing credentials file of the durable store does not end it:
\* the process serves with the durable store turned off.
C30_OnlyMissingTokenIsFatal ==
    /\ process.at = "exited" =>
          (NoToken(environ.BOT_TOKEN) /\ process.exit # Some(0))
    /\ (process.at = "run_polling" /\ ~environ.credentials_file) => ~FIREBASE_AVAILABLE

----------------------------------------------------------------------------
(* Properties of the streak shown to the user, under Spec *)

\* this step is a handler that showed u the streak count of the record
\* get_user_streak returned: the profile view, or the welcome menu of /start
\* and of "go back"
ShowsStreak(u) ==
    /\ now' = now
    /\ ev'.user = u
    /\ \/ ev'.op = "show_user_profile" /\ ev'.ret = PROFILE
       \/ ev'.op = "go_back" /\ ev'.ret = MEAL_PLAN
       \/ ev'.op = "start" /\ ev'.ret = MEAL_PLAN

\* a full calendar day has passed since the last completion of u
DayMissed(u) ==
    /\ HasStreak(u)
    /\ LastCompleted(u) # None
    /\ today - LastCompleted(u)[1] > 1

\* C31: once a full calendar day has passed with no completion, the streak
\* count the profile view and the welcome menu report is 0, and no longer
\* the count reached before the gap.
C31_MissedDayShowsZero ==
    [][ \A u \in Users :
          (ShowsStreak(u) /\ DayMissed(u))
          => (u \in DOMAIN user_streaks' /\ user_streaks'[u].streak_count = 0) ]_vars

----------------------------------------------------------------------------
(* Properties of the grocery list and the cart, under SpecShop *)

\* grocery_lists.get(user_id, []) and user_cart_selections.get(user_id, set())
ListIn(lists, u) == IF u \in DOMAIN lists THEN lists[u] ELSE << >>
CartIn(carts, u) == IF u \in DOMAIN carts THEN carts[u] ELSE {}

Items(list) == { list[i] : i \in 1..Len(list) }

\* this step is the handler op run for u
Handled(u, op) == ev'.op = op /\ ev'.user = u

\* C33: toggling an item flips the membership of exactly that item in the
\* cart of the user and changes nothing in the grocery list; adding,
\* removing and clearing items of the grocery list change nothing in the
\* cart.
C33_CartIndependentOfList ==
    [][ \A u \in Users :
          /\ Handled(u, "toggle_cart_item")
             => /\ grocery_lists' = grocery_lists
                /\ \A i \in GroceryItems :
                     (i \in CartIn(user_cart_selections', u))
                     <=> IF i = ev'.item[1]
                         THEN i \notin CartIn(user_cart_selections, u)
                         ELSE i \in CartIn(user_cart_selections, u)
          /\ ( \/ Handled(u, "add_grocery_item")
               \/ Handled(u, "remove_grocery_item")
               \/ Handled(u, "clear_grocery_list") )
             => user_cart_selections' = user_cart_selections ]_vars

\* the list was cleared while two items stay in the cart
C33_Witness ==
    \E u \in Users :
        /\ ev.op = "clear_grocery_list" /\ ev.user = u
        /\ ListIn(grocery_lists, u) = << >>
        /\ CartIn(user_cart_selections, u) = { s_Oil, s_Rice }

\* every item of the list is before the next one: sorted, and no item twice
StrictlySorted(list) ==
    \A i \in 1..(Len(list) - 1) : str_lt(list[i], list[i + 1])

\* C34: after any sequence of add, remove and clear events the grocery list
\* of a user holds no item twice and is in sorted order; adding an item
\* already in the list and removing an item not in it leave the list as it
\* was (else the item, and no other, joins or leaves the list); clear leaves
\* it empty.
C34_ListIsSortedSet ==
    /\ [](\A u \in DOMAIN grocery_lists : StrictlySorted(grocery_lists[u]))
    /\ [][ \A u \in Users :
             LET old == ListIn(grocery_lists, u)
                 new == ListIn(grocery_lists', u)
             IN  /\ Handled(u, "add_grocery_item")
                    => IF InList(ev'.item[1], old) THEN new = old
                       ELSE Items(new) = Items(old) \cup { ev'.item[1] }
                 /\ Handled(u, "remove_grocery_item")
                    => IF ~InList(ev'.item[1], old) THEN new = old
                       ELSE Items(new) = Items(old) \ { ev'.item[1] }
                 /\ Handled(u, "clear_grocery_list") => new = << >> ]_vars

\* "Oil" joined a list that held "Rice" and "oil": capitals come first
C34_Witness ==
    \E u \in Users :
        /\ ev.op = "add_grocery_item" /\ ev.user = u /\ ev.item = Some(s_Oil)
        /\ ListIn(grocery_lists, u) = << s_Oil, s_Rice, s_oil >>

----------------------------------------------------------------------------
(* Properties of two users, under SpecUsers *)

\* what a store holds for v
Entry(d, v) == IF v \in DOMAIN d THEN Some(d[v]) ELSE None

\* the cached profile, the streak record, the grocery list, the cart and the
\* rate window of v are left as they were
Untouched(v) ==
    /\ Entry(user_data_store', v) = Entry(user_data_store, v)
    /\ Entry(user_streaks', v) = Entry(user_streaks, v)
    /\ Entry(grocery_lists', v) = Entry(grocery_lists, v)
    /\ Entry(user_cart_selections', v) = Entry(user_cart_selections, v)
    /\ Entry(user_rate_limits', v) = Entry(user_rate_limits, v)

\* C32: an event handled for one user leaves the cached profile, the streak
\* record, the grocery list, the cart and the rate window of every other
\* user unchanged.
C32_OtherUsersUntouched ==
    [][ \A u \in TwoUsers :
          ev'.user = u => \A v \in TwoUsers \ { u } : Untouched(v) ]_vars

\* the visitor went through the questions, completed the profile and asked
\* for a meal plan, while the shopper emptied the list and filled the cart
C32_Witness ==
    /\ ev.user = Visitor /\ ev.op = "get_meal_plan" /\ ev.streak # None
    /\ Visitor \in DOMAIN user_rate_limits
    /\ HasKeys(user_data_store[Visitor], ProfileFields)
    /\ user_data_store[Shopper] = PriorProfile
    /\ user_streaks[Shopper] = ShopperStreak
    /\ grocery_lists[Shopper] = << >>
    /\ user_cart_selections[Shopper] = { s_Oil, s_Rice }
    /\ grocery_lists[Visitor] = << s_Rice >>

----------------------------------------------------------------------------
(* Properties of the questions answered by a button, under Spec *)

\* after the step the draft of u holds value as field, and every other
\* field it held, with the value it had
SetsOnly(u, field, value) ==
    /\ u \in DOMAIN user_data_store'
    /\ DOMAIN user_data_store'[u] = DOMAIN Draft(u) \cup { field }
    /\ user_data_store'[u][field] = value
    /\ \A k \in DOMAIN Draft(u) \ { field } : user_data_store'[u][k] = Draft(u)[k]

\* C35: a gender choice sets gender and goes to STATE, a region choice sets
\* state and goes to DIET_TYPE, a diet choice sets diet and goes to
\* MEDICAL_CONDITION, a medical choice other than "other" sets medical and
\* goes to ACTIVITY_LEVEL; each leaves every other field of the profile as
\* it was.
C35_ChoiceSetsOneField ==
    [][ \A u \in Users : \A msg \in DOMAIN keyboards[u] :
          /\ \A gender \in GenderChoices :
               gender_selection(u, msg, gender)
               => (SetsOnly(u, "gender", gender) /\ conv'[u] = STATE_)
          /\ \A state \in StateChoices :
               state_selection(u, msg, state)
               => (SetsOnly(u, "state", state) /\ conv'[u] = DIET_TYPE)
          /\ \A diet \in DietChoices :
               diet_selection(u, msg, diet)
               => (SetsOnly(u, "diet", diet) /\ conv'[u] = MEDICAL_CONDITION)
          /\ \A medical \in MedicalChoices :
               medical_selection(u, msg, medical)
               => (SetsOnly(u, "medical", medical) /\ conv'[u] = ACTIVITY_LEVEL) ]_vars

\* the four choices of a new user, after the name and the age
C35_Witness ==
    \E u \in Users :
        /\ ev.op = "medical_selection" /\ ev.user = u
        /\ conv[u] = ACTIVITY_LEVEL
        /\ Cached(u)
        /\ DOMAIN user_data_store[u] = ProfileFields \ { "activity" }

----------------------------------------------------------------------------
(* Properties of the durable streak record, under SpecCompletion *)

\* C36: a profile write never changes the streak record of the user in the
\* durable store: when a user with a durably stored streak completes the
\* profile, the durable document still holds a streak record, the one it
\* held or the one the streak update of the completion returned.
C36_ProfileWriteKeepsStreak ==
    [][ \A u \in Users :
          (Completion(u) /\ DocStreak(fb_docs, u) # None)
          => /\ DocStreak(fb_docs', u) # None
             /\ \/ DocStreak(fb_docs', u) = DocStreak(fb_docs, u)
                \/ DocStreak(fb_docs', u) = ev'.streak ]_vars

\* ---------------------------------------------------------------------
\* The "+N today" part of the daily meal plan

\* the points total of u's streak record, 0 without a record
PointsTotal(streaks, u) ==
    IF u \in DOMAIN streaks THEN streaks[u].streak_points_total ELSE 0

\* a meal plan for u was sent in this step with "(+N today!)" in it
BonusShown(u) ==
    /\ now' = now
    /\ ev'.op = "get_meal_plan" /\ ev'.user = u
    /\ ev'.bonus # None

\* C37: the daily meal plan shows "(+N today!)" only when the request
\* counted as a new daily completion that earned points, and N is the
\* amount this request added to the points total; a repeated request on
\* the same day adds nothing and shows no bonus.
C37_BonusIsPointsJustAdded ==
    [][ \A u \in Users :
          BonusShown(u)
          => /\ PointsTotal(user_streaks', u) > PointsTotal(user_streaks, u)
             /\ ev'.bonus[1] = PointsTotal(user_streaks', u) - PointsTotal(user_streaks, u)
      ]_vars

\* ---------------------------------------------------------------------
\* A meal-plan request over the rate limit

\* get_meal_plan refused u's request in this step
Refused(u) ==
    /\ now' = now
    /\ ev'.op = "get_meal_plan" /\ ev'.user = u
    /\ ~ev'.allowed

\* C38: a meal-plan request the rate limiter rejects changes nothing but the
\* reply: the profile is not read (an uncached profile stays uncached), the
\* streak record is not updated, in the cache or in the durable store, the
\* rate window is as it was, and the conversation is in the meal-plan state
\* afterwards, where it stays when the request came from there (the button
\* is also on the profile view).
C38_RefusedRequestChangesNothing ==
    [][ \A u \in Users :
          Refused(u)
          => /\ user_data_store' = user_data_store
             /\ user_streaks' = user_streaks
             /\ fb_docs' = fb_docs
             /\ user_rate_limits' = user_rate_limits
             /\ UNCHANGED sessionVars
             /\ conv' = [conv EXCEPT ![u] = MEAL_PLAN]
             /\ conv[u] = MEAL_PLAN => conv' = conv
             /\ ev'.ret = MEAL_PLAN /\ ev'.streak = None /\ ev'.bonus = None
      ]_vars

\* a request was refused while the profile was in the durable store only and
\* the cached streak record was one an update would have changed
C38_Witness ==
    \E u \in Users :
        /\ ev.op = "get_meal_plan" /\ ev.user = u /\ ~ev.allowed
        /\ Len(user_rate_limits[u].requests) = MAX_REQUESTS_PER_WINDOW
        /\ u \notin DOMAIN user_data_store
        /\ FIREBASE_AVAILABLE /\ u \in DOMAIN fb_docs
        /\ u \in DOMAIN user_streaks
        /\ user_streaks[u].last_completed_date # Some(today)
        /\ conv[u] = MEAL_PLAN

\* ---------------------------------------------------------------------
\* The contents of a rate window

\* the timestamps of window w
Stamps(w) == { w.requests[i] : i \in DOMAIN w.requests }

\* check_rate_limit ran for u in this step
Checked(u) == now' = now /\ ev'.op = "check_rate_limit" /\ ev'.user = u

\* C39: every rate window holds at most 30 timestamps, none earlier than
\* the start of the window, and when check_rate_limit has just run for a
\* user no timestamp of the user's window is more than 60 seconds old.
C39_WindowIsBounded ==
    /\ [](\A u \in DOMAIN user_rate_limits :
            /\ Len(user_rate_limits[u].requests) <= MAX_REQUESTS_PER_WINDOW
            /\ \A req \in Stamps(user_rate_limits[u]) :
                 req >= user_rate_limits[u].last_reset)
    /\ [][ \A u \in Users :
             Checked(u)
             => \A req \in Stamps(user_rate_limits'[u]) :
                  now - req <= RATE_LIMIT_WINDOW ]_vars

\* a full window just checked, whose oldest timestamp is 60 seconds old
C39_Witness ==
    \E u \in DOMAIN user_rate_limits :
        LET requests == user_rate_limits[u].requests
        IN  /\ ev.op = "check_rate_limit" /\ ev.user = u /\ ev.ret = "False"
            /\ Len(requests) = MAX_REQUESTS_PER_WINDOW
            /\ now - requests[1] = RATE_LIMIT_WINDOW
            /\ requests[1] = user_rate_limits[u].last_reset
            /\ requests[Len(requests)] = now

\* ---------------------------------------------------------------------
\* The weekly plan of a session and its current day

\* the session of u holds a weekly plan
HasPlan(sessions, u) ==
    u \in DOMAIN sessions /\ "weekly_plan" \in DOMAIN sessions[u]

CurrentDay(sessions, u) == sessions[u]["current_day"]

\* a plan has seven day entries and the current day is one of them
PlanInShape ==
    \A u \in Users :
        HasPlan(context_user_data, u)
        => /\ Len(context_user_data[u]["weekly_plan"]) = 7
           /\ "current_day" \in DOMAIN context_user_data[u]
           /\ CurrentDay(context_user_data, u) \in 0..6

\* previous day and next day on a session with a plan: the plan stays, the
\* index moves by one, and stays at 0 and at 6
DaysMove ==
    \A u \in Users :
        HasPlan(context_user_data, u)
        => /\ Handled(u, "week_prev")
              => /\ context_user_data'[u]["weekly_plan"] = context_user_data[u]["weekly_plan"]
                 /\ CurrentDay(context_user_data', u) =
                        IF CurrentDay(context_user_data, u) = 0 THEN 0
                        ELSE CurrentDay(context_user_data, u) - 1
                 /\ ev'.ret = WEEK_PLAN
           /\ Handled(u, "week_next")
              => /\ context_user_data'[u]["weekly_plan"] = context_user_data[u]["weekly_plan"]
                 /\ CurrentDay(context_user_data', u) =
                        IF CurrentDay(context_user_data, u) = 6 THEN 6
                        ELSE CurrentDay(context_user_data, u) + 1
                 /\ ev'.ret = WEEK_PLAN

====
